---- MODULE Spec2Model ----
(***************************************************************************)
(* Resume-helper: the validation rule engine (summary, experience and      *)
(* skills validators), keyword matching and scoring.                       *)
(*                                                                         *)
(* A Python str is modelled as a sequence of one-character strings, so     *)
(* that slicing, searching, case folding and the regular expressions of    *)
(* the source are computed character by character.                         *)
(***************************************************************************)
EXTENDS Integers, Sequences, FiniteSets, TLC

(* Optional[T]: None is the empty sequence, a value x is <<x>>. *)
None == <<>>
Some(x) == <<x>>

(* ------------------------------------------------------------------ *)
(* Characters and the str methods the validators use.                  *)
(* ------------------------------------------------------------------ *)
DigitChars == <<"0","1","2","3","4","5","6","7","8","9">>
UpperChars == <<"A","B","C","D","E","F","G","H","I","J","K","L","M","N","O","P","Q","R","S","T","U","V","W","X","Y","Z">>
LowerChars == <<"a","b","c","d","e","f","g","h","i","j","k","l","m","n","o","p","q","r","s","t","u","v","w","x","y","z">>
Range(s) == {s[i] : i \in DOMAIN s}
DigitSet == Range(DigitChars)
UpperSet == Range(UpperChars)
LowerSet == Range(LowerChars)
LowerOf == [c \in UpperSet |-> LowerChars[CHOOSE i \in DOMAIN UpperChars : UpperChars[i] = c]]
DigitValue == [c \in DigitSet |-> (CHOOSE i \in DOMAIN DigitChars : DigitChars[i] = c) - 1]
WhitespaceSet == {" ", "\t", "\n", "\r"}
\* regex classes \d, [A-Za-z], \w, \s
IsDigit(c) == c \in DigitSet
IsAlpha(c) == c \in UpperSet \/ c \in LowerSet
IsWordChar(c) == IsAlpha(c) \/ IsDigit(c) \/ c = "_"
IsSpace(c) == c \in WhitespaceSet

\* str.lower()
lower(s) == [i \in 1..Len(s) |-> IF s[i] \in UpperSet THEN LowerOf[s[i]] ELSE s[i]]

\* s[i:] (0-based i)
SliceFrom(s, i) == IF i >= Len(s) THEN <<>> ELSE SubSeq(s, i + 1, Len(s))

\* w occurs in s at 0-based offset i
MatchAt(s, i, w) ==
    /\ i >= 0
    /\ i + Len(w) <= Len(s)
    /\ \A j \in 1..Len(w) : s[i + j] = w[j]

\* w in s
Contains(s, w) == \E i \in 0..(Len(s) - Len(w)) : MatchAt(s, i, w)

\* s.startswith(w)
startswith(s, w) == MatchAt(s, 0, w)

\* s.find(w, from): least 0-based offset >= from, or -1
Find(s, w, from) ==
    IF \E i \in from..(Len(s) - Len(w)) : MatchAt(s, i, w)
    THEN CHOOSE i \in from..(Len(s) - Len(w)) :
            /\ MatchAt(s, i, w)
            /\ \A k \in from..(i - 1) : ~MatchAt(s, k, w)
    ELSE -1

\* the least element of a non-empty set of offsets: the leftmost match
First(S) == CHOOSE i \in S : \A k \in S : i <= k

\* str.lstrip(), str.rstrip(), str.strip()
RECURSIVE lstrip(_)
lstrip(s) == IF Len(s) > 0 /\ IsSpace(s[1]) THEN lstrip(Tail(s)) ELSE s
RECURSIVE rstrip(_)
rstrip(s) == IF Len(s) > 0 /\ IsSpace(s[Len(s)]) THEN rstrip(SubSeq(s, 1, Len(s) - 1)) ELSE s
strip(s) == rstrip(lstrip(s))

\* str.split(sep) for a one-character separator
RECURSIVE split(_, _)
split(s, sep) ==
    LET i == Find(s, <<sep>>, 0)
    IN  IF i = -1 THEN <<s>>
        ELSE <<SubSeq(s, 1, i)>> \o split(SliceFrom(s, i + 1), sep)

\* sep.join(parts)
RECURSIVE join(_, _)
join(sep, parts) ==
    IF Len(parts) = 0 THEN <<>>
    ELSE IF Len(parts) = 1 THEN parts[1]
    ELSE parts[1] \o sep \o join(sep, Tail(parts))

\* str(n) for n >= 0, and int(s) for a run of digits
RECURSIVE str(_)
str(n) == IF n < 10 THEN <<DigitChars[n + 1]>> ELSE str(n \div 10) \o <<DigitChars[(n % 10) + 1]>>
RECURSIVE int(_)
int(ds) == IF Len(ds) = 0 THEN 0 ELSE int(SubSeq(ds, 1, Len(ds) - 1)) * 10 + DigitValue[ds[Len(ds)]]

\* concatenation of a list of lists
RECURSIVE Flatten(_)
Flatten(ss) == IF Len(ss) = 0 THEN <<>> ELSE ss[1] \o Flatten(Tail(ss))

\* the characters at 1-based positions a..b of s all satisfy the class
AllSpace(s, a, b) == \A k \in a..b : IsSpace(s[k])
AllDigit(s, a, b) == \A k \in a..b : IsDigit(s[k])

\* regex \b at 0-based offset i: exactly one side is a word character
WordAt(s, k) == k >= 1 /\ k <= Len(s) /\ IsWordChar(s[k])
WordBoundary(s, i) == WordAt(s, i) # WordAt(s, i + 1)

\* end (1-based, inclusive) of the maximal digit run starting at 1-based a
RECURSIVE DigitRunEnd(_, _)
DigitRunEnd(s, a) == IF a < Len(s) /\ IsDigit(s[a + 1]) THEN DigitRunEnd(s, a + 1) ELSE a
\* first 1-based position >= a that is not whitespace (Len(s)+1 if none)
RECURSIVE SkipSpace(_, _)
SkipSpace(s, a) == IF a <= Len(s) /\ IsSpace(s[a]) THEN SkipSpace(s, a + 1) ELSE a

(* ------------------------------------------------------------------ *)
(* utils/keyword_analyzer.py                                           *)
(* ------------------------------------------------------------------ *)
\* variant: every occurrence of every keyword counts
count_keyword_matches_occurrences(text, keywords) ==
    LET text_lower == lower(text)
    IN  Cardinality({at \in (DOMAIN keywords) \X (0..Len(text)) :
                        MatchAt(text_lower, at[2], lower(keywords[at[1]]))})

\* number of list entries keyword with keyword.lower() in text.lower()
count_keyword_matches(text, keywords) ==
    LET text_lower == lower(text)
    IN  Cardinality({k \in DOMAIN keywords : Contains(text_lower, lower(keywords[k]))})

\* max(a, b), min(a, b)
max(a, b) == IF a >= b THEN a ELSE b
min(a, b) == IF a <= b THEN a ELSE b

\* variant: the bonus rounded to the nearest integer instead of truncated
KeywordBonus_rounded(keywords_matched, total_keywords, weight) ==
    LET a == keywords_matched * weight
        b == max(total_keywords, 1)
    IN  IF 2 * (a % b) >= b THEN (a \div b) + 1 ELSE a \div b

\* int(keywords_matched / max(total_keywords, 1) * weight): the ratio lies in
\* [0, 1], so truncation is the floor; the float product agrees with the exact
\* quotient for every list length below 60 (checked by enumeration).
KeywordBonus(keywords_matched, total_keywords, weight) ==
    (keywords_matched * weight) \div max(total_keywords, 1)

(* ------------------------------------------------------------------ *)
(* config/settings.py: the validation settings (defaults).             *)
(* ------------------------------------------------------------------ *)
summary_char_min == 105
summary_char_max == 109
summary_bullet_count == 4
min_keywords_required == 5

(* ------------------------------------------------------------------ *)
(* validators/summary_validator.py                                     *)
(* ------------------------------------------------------------------ *)
\* re.search(rf'\b{name}\b', content)
SearchWholeWord(content, name) ==
    \E i \in 0..(Len(content) - Len(name)) :
        /\ MatchAt(content, i, name)
        /\ WordBoundary(content, i)
        /\ WordBoundary(content, i + Len(name))

\* re.search(rf'{prep}\s+{name}\b', content), prep being 'for' or 'at'
SearchAfterPreposition(content, prep, name) ==
    \E i \in 0..(Len(content) - Len(prep) - 1 - Len(name)) :
        /\ MatchAt(content, i, prep)
        /\ \E k \in (i + Len(prep) + 1)..(Len(content) - Len(name)) :
              /\ AllSpace(content, i + Len(prep) + 1, k)
              /\ MatchAt(content, k, name)
              /\ WordBoundary(content, k + Len(name))

\* the three patterns built for one company name
CompanyPatternsMatch(content_lower, company_name) ==
    LET name == lower(company_name)
    IN  \/ SearchWholeWord(content_lower, name)
        \/ SearchAfterPreposition(content_lower, <<"f","o","r">>, name)
        \/ SearchAfterPreposition(content_lower, <<"a","t">>, name)

leadership_verbs ==
    << <<"l","e","d">>, <<"l","e","a","d","i","n","g">>, <<"l","e","a","d">>,
       <<"m","a","n","a","g","e","d">>, <<"m","a","n","a","g","i","n","g">>, <<"m","a","n","a","g","e">>,
       <<"d","i","r","e","c","t","e","d">>, <<"d","i","r","e","c","t","i","n","g">>, <<"d","i","r","e","c","t">>,
       <<"o","v","e","r","s","a","w">>, <<"o","v","e","r","s","e","e","i","n","g">>, <<"o","v","e","r","s","e","e">>,
       <<"s","u","p","e","r","v","i","s","e","d">>, <<"s","u","p","e","r","v","i","s","i","n","g">>, <<"s","u","p","e","r","v","i","s","e">> >>

\* r'(\d+)\+?\s*(?:yrs?|years?)' matches with its digits starting at 1-based a
YearsMatchAt(s, a) ==
    /\ IsDigit(s[a])
    /\ LET e == DigitRunEnd(s, a)
           p == IF e < Len(s) /\ s[e + 1] = "+" THEN e + 1 ELSE e
           q == SkipSpace(s, p + 1)
       IN  MatchAt(s, q - 1, <<"y","r">>) \/ MatchAt(s, q - 1, <<"y","e","a","r">>)

\* re.search of that pattern: Some(group(1)) of the leftmost match, or None
YearsSearch(s) ==
    IF \E a \in 1..Len(s) : YearsMatchAt(s, a)
    THEN LET a == CHOOSE a \in 1..Len(s) :
                    YearsMatchAt(s, a) /\ \A b \in 1..(a - 1) : ~YearsMatchAt(s, b)
         IN  Some(SubSeq(s, a, DigitRunEnd(s, a)))
    ELSE None

CompanyNameMessage(company_name) ==
    <<"C","o","m","p","a","n","y"," ","n","a","m","e"," ","'">> \o company_name \o
    <<"'"," ","f","o","u","n","d"," ","i","n"," ","b","u","l","l","e","t","."," ","N","e","v","e","r"," ","m","e","n","t","i","o","n"," ","t","h","e"," ","t","a","r","g","e","t"," ","c","o","m","p","a","n","y"," ","a","s"," ","i","f"," ","y","o","u"," ","w","o","r","k"," ","t","h","e","r","e",".">>

LeadershipMessage(verb, role_level) ==
    <<"L","e","a","d","e","r","s","h","i","p"," ","v","e","r","b"," ","'">> \o verb \o <<"'"," ","i","n","a","p","p","r","o","p","r","i","a","t","e"," ","f","o","r"," ">> \o role_level \o
    <<"-","l","e","v","e","l"," ","r","o","l","e","."," ","U","s","e"," ","c","o","n","t","r","i","b","u","t","o","r"," ","l","a","n","g","u","a","g","e",":"," ","c","o","l","l","a","b","o","r","a","t","e","d",","," ","c","o","n","t","r","i","b","u","t","e","d",","," ","i","m","p","l","e","m","e","n","t","e","d",","," ","s","u","p","p","o","r","t","e","d",".">>

ExperienceMessage(years, max_years, role_level) ==
    <<"E","x","p","e","r","i","e","n","c","e"," ","l","e","v","e","l"," ","'">> \o str(years) \o <<"+"," ","y","r","s","'"," ","e","x","c","e","e","d","s"," ","m","a","x","i","m","u","m"," ">> \o str(max_years) \o
    <<" ","f","o","r"," ">> \o role_level \o <<"-","l","e","v","e","l"," ","r","o","l","e","."," ","A","d","j","u","s","t"," ","t","o"," ","m","a","t","c","h"," ","j","o","b"," ","r","e","q","u","i","r","e","m","e","n","t","s",".">>

\* variant: every violated rule is reported, not only the first
check_all_constraints_every_rule(content, context) ==
    LET content_lower == lower(content)
        hits == {n \in DOMAIN context.company_names :
                    CompanyPatternsMatch(content_lower, context.company_names[n])}
        verbs == {v \in DOMAIN leadership_verbs :
                    SearchWholeWord(content_lower, leadership_verbs[v])}
        Years(years_match) ==
            IF years_match # None /\ int(years_match[1]) > context.max_experience_years[1]
            THEN << ExperienceMessage(int(years_match[1]), context.max_experience_years[1],
                                      context.role_level) >>
            ELSE << >>
    IN  (IF hits # {}
         THEN << CompanyNameMessage(context.company_names[First(hits)]) >> ELSE << >>)
        \o (IF ~context.leadership_allowed /\ verbs # {}
            THEN << LeadershipMessage(leadership_verbs[First(verbs)], context.role_level) >>
            ELSE << >>)
        \o (IF context.max_experience_years # None
            THEN Years(YearsSearch(content_lower)) ELSE << >>)

\* SummaryBullet.check_all_constraints: the ValueError messages the validator
\* raises for one bullet; the first raise ends the method, so at most one.
check_all_constraints(content, context) ==
    LET content_lower == lower(content)
        hits == {n \in DOMAIN context.company_names :
                    CompanyPatternsMatch(content_lower, context.company_names[n])}
        verbs == {v \in DOMAIN leadership_verbs :
                    SearchWholeWord(content_lower, leadership_verbs[v])}
        Years(years_match) ==
            IF years_match # None /\ int(years_match[1]) > context.max_experience_years[1]
            THEN << ExperienceMessage(int(years_match[1]), context.max_experience_years[1],
                                      context.role_level) >>
            ELSE << >>
    IN  IF hits # {}
        THEN << CompanyNameMessage(context.company_names[First(hits)]) >>
        ELSE IF ~context.leadership_allowed /\ verbs # {}
        THEN << LeadershipMessage(leadership_verbs[First(verbs)], context.role_level) >>
        ELSE IF context.max_experience_years # None
        THEN Years(YearsSearch(content_lower))
        ELSE << >>

\* pydantic reports a ValueError raised in a validator as 'Value error, ' + str(e)
PydanticMsg(raised) == <<"V","a","l","u","e"," ","e","r","r","o","r",","," ">> \o raised

\* validate(), lines 141-156: one error per pydantic error of each bullet
SemanticErrors(bullets, context) ==
    LET Line(i, msg) ==
            <<"B","u","l","l","e","t"," ">> \o str(i) \o <<":"," ">> \o
            (IF startswith(msg, <<"V","a","l","u","e"," ","e","r","r","o","r",","," ">>) THEN SliceFrom(msg, 13) ELSE msg)
        Lines(i, raised) == [k \in 1..Len(raised) |-> Line(i, PydanticMsg(raised[k]))]
    IN  IF context = None THEN << >>
        ELSE Flatten([i \in 1..Len(bullets) |->
                Lines(i, check_all_constraints(bullets[i], context[1]))])

\* _parse_bullets
Summary_parse_bullets(bullets_text) ==
    LET lines == split(strip(bullets_text), "\n")
        stripped == [i \in 1..Len(lines) |-> strip(lines[i])]
    IN  Flatten([i \in 1..Len(lines) |->
            IF startswith(stripped[i], <<"\\","i","t","e","m">>)
            THEN << strip(SliceFrom(stripped[i], 5)) >>
            ELSE << >>])

\* _check_first_bullet_format: r'^[A-Za-z\s]+\s+with\s+\d+\+?\s+(yrs?|years)', IGNORECASE
check_first_bullet_format(bullet) ==
    LET b == lower(bullet)
    IN  \E w \in 2..(Len(b) - 4) :          \* 0-based offset of 'with'
          /\ MatchAt(b, w, <<"w","i","t","h">>)
          /\ IsSpace(b[w])
          /\ \A k \in 1..w : IsAlpha(b[k]) \/ IsSpace(b[k])
          /\ \E d \in (w + 6)..Len(b) :      \* 1-based position of the first digit
                /\ AllSpace(b, w + 5, d - 1)
                /\ IsDigit(b[d])
                /\ LET e == DigitRunEnd(b, d)
                       p == IF e < Len(b) /\ b[e + 1] = "+" THEN e + 1 ELSE e
                       q == SkipSpace(b, p + 1)
                   IN  /\ q > p + 1
                       /\ MatchAt(b, q - 1, <<"y","r">>) \/ MatchAt(b, q - 1, <<"y","e","a","r","s">>)

\* _contains_numbers: r'\d+'
contains_numbers(text) == \E i \in 1..Len(text) : IsDigit(text[i])

\* _check_latex_escaping: no match of r'(?<!\\)[%$&#_{}^~]'
LatexSpecialSet == {"%", "$", "&", "#", "_", "{", "}", "^", "~"}
check_latex_escaping(text) ==
    ~ \E i \in 1..Len(text) :
          /\ text[i] \in LatexSpecialSet
          /\ (i = 1 \/ text[i - 1] # "\\")

\* bullet.rstrip().endswith('.')
EndsWithPeriod(bullet) ==
    LET r == rstrip(bullet) IN Len(r) > 0 /\ r[Len(r)] = "."

SemanticTerms == << <<"c","o","m","p","a","n","y"," ","n","a","m","e">>, <<"l","e","a","d","e","r","s","h","i","p">>, <<"e","x","p","e","r","i","e","n","c","e"," ","l","e","v","e","l">> >>

\* the score before clamping
Summary_raw_score(errors, warnings, keywords_matched, total_keywords) ==
    LET semantic_errors ==
            Cardinality({e \in DOMAIN errors :
                \E t \in DOMAIN SemanticTerms : Contains(lower(errors[e]), SemanticTerms[t])})
        format_errors == Len(errors) - semantic_errors
    IN  100 - semantic_errors * 20 - format_errors * 15 - Len(warnings) * 5
            + KeywordBonus(keywords_matched, total_keywords, 10)

\* variant: the lower clamp is missing
Clamp_no_floor(score) == min(100, score)

\* max(0, min(100, score))
Clamp(score) == max(0, min(100, score))

\* _calculate_score
Summary_calculate_score(errors, warnings, keywords_matched, total_keywords) ==
    Clamp(Summary_raw_score(errors, warnings, keywords_matched, total_keywords))

\* passed = len(errors) == 0
Passed(errors) == Len(errors) = 0

\* variant: warnings fail the section too
ValidationResult_warnings_fail(errors, warnings, score, keywords_matched) ==
    [passed |-> Len(errors) = 0 /\ Len(warnings) = 0, errors |-> errors,
     warnings |-> warnings, score |-> score, keywords_matched |-> keywords_matched]

\* ValidationResult(...)
ValidationResult(errors, warnings, score, keywords_matched) ==
    [passed |-> Passed(errors), errors |-> errors, warnings |-> warnings,
     score |-> score, keywords_matched |-> keywords_matched]

\* variant: only too few bullets are reported
SummaryCountErrors_only_fewer(n) ==
    IF n < summary_bullet_count
    THEN << <<"M","u","s","t"," ","h","a","v","e"," ","e","x","a","c","t","l","y"," ">> \o str(summary_bullet_count) \o
            <<" ","b","u","l","l","e","t","s"," ","(","f","o","u","n","d"," ">> \o str(n) \o <<")">> >>
    ELSE << >>

\* the count check, lines 159-160
SummaryCountErrors(n) ==
    IF n # summary_bullet_count
    THEN << <<"M","u","s","t"," ","h","a","v","e"," ","e","x","a","c","t","l","y"," ">> \o str(summary_bullet_count) \o
            <<" ","b","u","l","l","e","t","s"," ","(","f","o","u","n","d"," ">> \o str(n) \o <<")">> >>
    ELSE << >>

\* variant: the limits themselves are rejected
LengthOutOfRange_exclusive(char_count) ==
    char_count <= summary_char_min \/ char_count >= summary_char_max

\* the condition of the character-count check, line 166
LengthOutOfRange(char_count) ==
    char_count < summary_char_min \/ char_count > summary_char_max

\* the errors and warnings of the per-bullet loop, lines 163-180
SummaryBulletErrors(i, bullet) ==
    (IF LengthOutOfRange(Len(bullet))
     THEN << <<"B","u","l","l","e","t"," ">> \o str(i) \o <<":"," ">> \o str(Len(bullet)) \o <<" ","c","h","a","r","s"," ","(","m","u","s","t"," ","b","e"," ">> \o
             str(summary_char_min) \o <<"-">> \o str(summary_char_max) \o <<")">> >>
     ELSE << >>)
    \o (IF i = 1 /\ ~check_first_bullet_format(bullet)
        THEN << <<"B","u","l","l","e","t"," ","1"," ","m","u","s","t"," ","s","t","a","r","t"," ","w","i","t","h"," ","'","[","R","o","l","e","]"," ","w","i","t","h"," ","X","+"," ","y","r","s","'">> >> ELSE << >>)
    \o (IF EndsWithPeriod(bullet)
        THEN << <<"B","u","l","l","e","t"," ">> \o str(i) \o <<":"," ","R","e","m","o","v","e"," ","t","r","a","i","l","i","n","g"," ","p","e","r","i","o","d">> >> ELSE << >>)

SummaryBulletWarnings(i, bullet) ==
    IF ~contains_numbers(bullet)
    THEN << <<"B","u","l","l","e","t"," ">> \o str(i) \o
            <<":"," ","C","o","n","s","i","d","e","r"," ","a","d","d","i","n","g"," ","m","e","a","s","u","r","a","b","l","e"," ","i","m","p","a","c","t"," ","(","n","u","m","b","e","r","s","/","p","e","r","c","e","n","t","a","g","e","s",")">> >>
    ELSE << >>

KeywordError(keywords_matched, total, need) ==
    <<"O","n","l","y"," ">> \o str(keywords_matched) \o <<"/">> \o str(total) \o
    <<" ","k","e","y","w","o","r","d","s"," ","f","o","u","n","d"," ","(","n","e","e","d"," ">> \o str(need) \o <<")">>

\* SummaryValidator.validate
Summary_validate(bullets_text, keywords, context) ==
    LET Result(errors, warnings, keywords_matched) ==
            ValidationResult(errors, warnings,
                Summary_calculate_score(errors, warnings, keywords_matched, Len(keywords)),
                keywords_matched)
        Checked(bullets, keywords_matched) ==
            Result(
                SemanticErrors(bullets, context)
                \o SummaryCountErrors(Len(bullets))
                \o Flatten([i \in 1..Len(bullets) |-> SummaryBulletErrors(i, bullets[i])])
                \o (IF keywords_matched < min_keywords_required
                    THEN << KeywordError(keywords_matched, Len(keywords),
                                         min_keywords_required) >>
                    ELSE << >>),
                Flatten([i \in 1..Len(bullets) |-> SummaryBulletWarnings(i, bullets[i])])
                \o (IF ~check_latex_escaping(bullets_text)
                    THEN << <<"S","o","m","e"," ","s","p","e","c","i","a","l"," ","c","h","a","r","a","c","t","e","r","s"," ","m","a","y"," ","n","o","t"," ","b","e"," ","p","r","o","p","e","r","l","y"," ","e","s","c","a","p","e","d">> >>
                    ELSE << >>),
                keywords_matched)
        Parsed(bullets) ==
            Checked(bullets, count_keyword_matches(join(<<" ">>, bullets), keywords))
    IN  Parsed(Summary_parse_bullets(bullets_text))(* ------------------------------------------------------------------ *)
(* Regular-expression helpers shared by the experience and skills      *)
(* validators.                                                        *)
(* ------------------------------------------------------------------ *)
\* '(.*?)\}' without DOTALL, tried at 0-based offset from: the offset of the
\* first '}' at or after from with no newline before it, or -1
CloseBrace(s, from) ==
    LET j == Find(s, <<"}">>, from)
        nl == Find(s, <<"\n">>, from)
    IN  IF j # -1 /\ (nl = -1 \/ nl > j) THEN j ELSE -1

\* re.sub(prefix + r'(.*?)\}', r'\1', s) for prefix '\textit{' or '\textbf{'
RECURSIVE SubWrapper(_, _)
SubWrapper(s, prefix) ==
    LET starts == {i \in 0..(Len(s) - Len(prefix)) :
                      MatchAt(s, i, prefix) /\ CloseBrace(s, i + Len(prefix)) # -1}
        Replace(i, j) ==
            SubSeq(s, 1, i) \o SubSeq(s, i + Len(prefix) + 1, j)
               \o SubWrapper(SliceFrom(s, j + 1), prefix)
        At(i) == Replace(i, CloseBrace(s, i + Len(prefix)))
    IN  IF starts = {} THEN s ELSE At(First(starts))

\* r'\\textcolor\{.*?\}\{(.*?)\}' tried at offset i: the offsets of '}{' and
\* of the closing '}' of the shortest match, or <<>> when it does not match
TextcolorMatchAt(s, i) ==
    LET prefix == <<"\\","t","e","x","t","c","o","l","o","r","{">>
        mids == {a \in (i + Len(prefix))..(Len(s) - 2) :
                    /\ MatchAt(s, a, <<"}","{">>)
                    /\ \A k \in (i + Len(prefix) + 1)..a : s[k] # "\n"
                    /\ CloseBrace(s, a + 2) # -1}
        At(a) == << a, CloseBrace(s, a + 2) >>
    IN  IF ~MatchAt(s, i, prefix) \/ mids = {} THEN << >> ELSE At(First(mids))

\* re.sub(r'\\textcolor\{.*?\}\{(.*?)\}', r'\1', s)
RECURSIVE SubTextcolor(_)
SubTextcolor(s) ==
    LET starts == {i \in 0..(Len(s) - 1) : TextcolorMatchAt(s, i) # << >>}
        Replace(i, m) ==
            SubSeq(s, 1, i) \o SubSeq(s, m[1] + 3, m[2])
               \o SubTextcolor(SliceFrom(s, m[2] + 1))
        At(i) == Replace(i, TextcolorMatchAt(s, i))
    IN  IF starts = {} THEN s ELSE At(First(starts))

(* ------------------------------------------------------------------ *)
(* validators/experience_validator.py                                  *)
(* ------------------------------------------------------------------ *)
Experience_min_bullets == 4
Experience_max_bullets == 6
Experience_min_keywords == 3

action_verbs ==
    { <<"l","e","d">>, <<"d","e","v","e","l","o","p","e","d">>, <<"i","m","p","l","e","m","e","n","t","e","d">>, <<"d","e","s","i","g","n","e","d">>, <<"b","u","i","l","t">>, <<"c","r","e","a","t","e","d">>,
      <<"m","a","n","a","g","e","d">>, <<"d","e","l","i","v","e","r","e","d">>, <<"l","a","u","n","c","h","e","d">>, <<"o","p","t","i","m","i","z","e","d">>, <<"i","m","p","r","o","v","e","d">>, <<"r","e","d","u","c","e","d">>,
      <<"i","n","c","r","e","a","s","e","d">>, <<"a","c","h","i","e","v","e","d">>, <<"e","s","t","a","b","l","i","s","h","e","d">>, <<"d","r","o","v","e">>, <<"s","p","e","a","r","h","e","a","d","e","d">>, <<"f","a","c","i","l","i","t","a","t","e","d">>,
      <<"d","e","p","l","o","y","e","d">>, <<"a","r","c","h","i","t","e","c","t","e","d">>, <<"e","n","g","i","n","e","e","r","e","d">>, <<"c","o","l","l","a","b","o","r","a","t","e","d">>, <<"c","o","o","r","d","i","n","a","t","e","d">> }

\* re.findall(r'\\resumeItem\{(.*?)\}', text, re.DOTALL), scanning from offset from
RECURSIVE FindAllResumeItems(_, _)
FindAllResumeItems(s, from) ==
    LET open == <<"\\","r","e","s","u","m","e","I","t","e","m","{">>
        Item(i, j) ==
            IF j = -1 THEN << >>
            ELSE << SubSeq(s, i + Len(open) + 1, j) >> \o FindAllResumeItems(s, j + 1)
        At(i) == IF i = -1 THEN << >> ELSE Item(i, Find(s, <<"}">>, i + Len(open)))
    IN  At(Find(s, open, from))

\* _parse_bullets
Experience_parse_bullets(experience_text) ==
    LET Cleaned(matches) ==
            [m \in 1..Len(matches) |->
                SubTextcolor(SubWrapper(SubWrapper(strip(matches[m]), <<"\\","t","e","x","t","i","t","{">>),
                                        <<"\\","t","e","x","t","b","f","{">>))]
    IN  Cleaned(FindAllResumeItems(experience_text, 0))

\* bullet.split()[0] if bullet.split() else ""
FirstWord(s) ==
    LET Word(t, ends) == IF ends = {} THEN t ELSE SubSeq(t, 1, First(ends) - 1)
        Stripped(t) == Word(t, {k \in 1..Len(t) : IsSpace(t[k])})
    IN  Stripped(lstrip(s))

\* _starts_with_action_verb
starts_with_action_verb(bullet) == lower(FirstWord(bullet)) \in action_verbs

\* r'\d+' followed by the character c (patterns \d+%, \d+\+, \d+x), by one of
\* K, M, B, or preceded by '$'
DigitThen(text, cs) == \E i \in 1..(Len(text) - 1) : IsDigit(text[i]) /\ text[i + 1] \in cs

\* _contains_metrics
contains_metrics(text) ==
    \/ DigitThen(text, {"%"})
    \/ DigitThen(text, {"+"})
    \/ DigitThen(text, {"K", "M", "B"})
    \/ \E i \in 1..(Len(text) - 1) : text[i] = "$" /\ IsDigit(text[i + 1])
    \/ DigitThen(text, {"x"})
    \/ \E i \in 1..Len(text) : IsDigit(text[i])

\* _check_latex_format
Experience_check_latex_format(text) ==
    LET has_subheading == Contains(text, <<"\\","r","e","s","u","m","e","S","u","b","h","e","a","d","i","n","g">>)
        has_items == Contains(text, <<"\\","r","e","s","u","m","e","I","t","e","m">>)
    IN  has_subheading /\ has_items

\* the score before clamping
Experience_raw_score(errors, warnings, keywords_matched, total_keywords, bullet_count) ==
    100 - Len(errors) * 15 - Len(warnings) * 5
        + KeywordBonus(keywords_matched, total_keywords, 15)
        + (IF bullet_count = 5 THEN 5 ELSE 0)

\* _calculate_score
Experience_calculate_score(errors, warnings, keywords_matched, total_keywords, bullet_count) ==
    Clamp(Experience_raw_score(errors, warnings, keywords_matched, total_keywords, bullet_count))

\* variant: too many bullets are an error as well
ExperienceCountCheck_error_above(n) ==
    IF n < Experience_min_bullets
    THEN << << <<"N","e","e","d"," ","a","t"," ","l","e","a","s","t"," ">> \o str(Experience_min_bullets) \o <<" ","b","u","l","l","e","t","s"," ","(","f","o","u","n","d"," ">>
               \o str(n) \o <<")">> >>, << >> >>
    ELSE IF n > Experience_max_bullets
    THEN << << <<"C","o","n","s","i","d","e","r"," ","r","e","d","u","c","i","n","g"," ","t","o"," ">> \o str(Experience_max_bullets)
               \o <<" ","b","u","l","l","e","t","s"," ","(","f","o","u","n","d"," ">> \o str(n) \o <<")">> >>, << >> >>
    ELSE << << >>, << >> >>

\* the count check, lines 55-58: << errors, warnings >>
ExperienceCountCheck(n) ==
    IF n < Experience_min_bullets
    THEN << << <<"N","e","e","d"," ","a","t"," ","l","e","a","s","t"," ">> \o str(Experience_min_bullets) \o <<" ","b","u","l","l","e","t","s"," ","(","f","o","u","n","d"," ">>
               \o str(n) \o <<")">> >>, << >> >>
    ELSE IF n > Experience_max_bullets
    THEN << << >>, << <<"C","o","n","s","i","d","e","r"," ","r","e","d","u","c","i","n","g"," ","t","o"," ">> \o str(Experience_max_bullets)
               \o <<" ","b","u","l","l","e","t","s"," ","(","f","o","u","n","d"," ">> \o str(n) \o <<")">> >> >>
    ELSE << << >>, << >> >>

ExperienceBulletWarnings(i, bullet) ==
    (IF ~starts_with_action_verb(bullet)
     THEN << <<"B","u","l","l","e","t"," ">> \o str(i) \o <<":"," ","C","o","n","s","i","d","e","r"," ","s","t","a","r","t","i","n","g"," ","w","i","t","h"," ","s","t","r","o","n","g"," ","a","c","t","i","o","n"," ","v","e","r","b">> >>
     ELSE << >>)
    \o (IF ~contains_metrics(bullet)
        THEN << <<"B","u","l","l","e","t"," ">> \o str(i) \o <<":"," ","A","d","d"," ","q","u","a","n","t","i","f","i","a","b","l","e"," ","m","e","t","r","i","c","s"," ","(","%",","," ","n","u","m","b","e","r","s",","," ","s","c","a","l","e",")">> >>
        ELSE << >>)

ExperienceBulletErrors(i, bullet) ==
    IF EndsWithPeriod(bullet)
    THEN << <<"B","u","l","l","e","t"," ">> \o str(i) \o <<":"," ","R","e","m","o","v","e"," ","t","r","a","i","l","i","n","g"," ","p","e","r","i","o","d">> >> ELSE << >>

\* ExperienceValidator.validate
Experience_validate(experience_text, keywords) ==
    LET Result(errors, warnings, keywords_matched, bullet_count) ==
            ValidationResult(errors, warnings,
                Experience_calculate_score(errors, warnings, keywords_matched,
                                           Len(keywords), bullet_count),
                keywords_matched)
        Checked(bullets, count, keywords_matched) ==
            Result(
                count[1]
                \o Flatten([i \in 1..Len(bullets) |->
                                ExperienceBulletErrors(i, bullets[i])])
                \o (IF keywords_matched < Experience_min_keywords
                    THEN << KeywordError(keywords_matched, Len(keywords),
                                         Experience_min_keywords) >>
                    ELSE << >>)
                \o (IF ~Experience_check_latex_format(experience_text)
                    THEN << <<"I","n","v","a","l","i","d"," ","L","a","T","e","X"," ","f","o","r","m","a","t"," ","-"," ","m","u","s","t"," ","u","s","e"," ","\\","r","e","s","u","m","e","I","t","e","m"," ","s","t","r","u","c","t","u","r","e">> >>
                    ELSE << >>),
                count[2]
                \o Flatten([i \in 1..Len(bullets) |->
                                ExperienceBulletWarnings(i, bullets[i])]),
                keywords_matched, Len(bullets))
        Parsed(bullets) ==
            Checked(bullets, ExperienceCountCheck(Len(bullets)),
                    count_keyword_matches(join(<<" ">>, bullets), keywords))
    IN  Parsed(Experience_parse_bullets(experience_text))(* ------------------------------------------------------------------ *)
(* validators/skills_validator.py                                      *)
(* ------------------------------------------------------------------ *)
Skills_min_skills == 8
Skills_max_skills == 20
Skills_min_keywords == 3

\* re.split(r'[,;|]', content)
RECURSIVE SplitDelimiters(_)
SplitDelimiters(s) ==
    LET cuts == {i \in 1..Len(s) : s[i] \in {",", ";", "|"}}
        At(i) == << SubSeq(s, 1, i - 1) >> \o SplitDelimiters(SliceFrom(s, i))
    IN  IF cuts = {} THEN << s >> ELSE At(First(cuts))

\* the skills of one line of the text, lines 92-105
SkillsOfLine(raw_line) ==
    LET Kept(skill) == IF skill # << >> /\ skill # <<":">> THEN << skill >> ELSE << >>
        Skills(parts) ==
            Flatten([p \in 1..Len(parts) |->
                Kept(SubWrapper(SubWrapper(strip(parts[p]), <<"\\","t","e","x","t","b","f","{">>), <<"\\","t","e","x","t","i","t","{">>))])
        Line(line) ==
            IF ~startswith(line, <<"\\","i","t","e","m">>) THEN << >>
            ELSE Skills(SplitDelimiters(strip(SliceFrom(line, 5))))
    IN  Line(strip(raw_line))

\* _parse_skills
Skills_parse_skills(skills_text) ==
    LET lines == split(skills_text, "\n")
    IN  Flatten([l \in 1..Len(lines) |-> SkillsOfLine(lines[l])])

\* _has_categories (re.IGNORECASE)
has_categories(text) ==
    LET t == lower(text)
    IN  \/ \E i \in 0..(Len(t) - 1) :
              /\ MatchAt(t, i, <<"\\","t","e","x","t","b","f","{">>)
              /\ LET c == Find(t, <<":">>, i + 8)
                     nl == Find(t, <<"\n">>, i + 8)
                 IN  c # -1 /\ (nl = -1 \/ nl > c)
        \/ Contains(t, <<"l","a","n","g","u","a","g","e","s",":">>)
        \/ Contains(t, <<"f","r","a","m","e","w","o","r","k","s",":">>)
        \/ Contains(t, <<"t","o","o","l","s",":">>)
        \/ Contains(t, <<"t","e","c","h","n","o","l","o","g","i","e","s",":">>)

\* _check_latex_format
Skills_check_latex_format(text) ==
    LET has_items == Contains(text, <<"\\","i","t","e","m">>)
        has_section == Contains(text, <<"\\","s","e","c","t","i","o","n">>) \/ Contains(text, <<"\\","b","e","g","i","n","{","i","t","e","m","i","z","e","}">>)
    IN  has_items /\ has_section

\* variant: entries compared case-sensitively
find_duplicates_case_sensitive(skills) ==
    Flatten([i \in 1..Len(skills) |->
        IF \E j \in 1..(i - 1) : skills[j] = skills[i]
        THEN << skills[i] >> ELSE << >>])

\* _find_duplicates: every entry whose lower-cased text was seen earlier in the list
find_duplicates(skills) ==
    Flatten([i \in 1..Len(skills) |->
        IF \E j \in 1..(i - 1) : lower(skills[j]) = lower(skills[i])
        THEN << skills[i] >> ELSE << >>])

\* the score before clamping
Skills_raw_score(errors, warnings, keywords_matched, total_keywords, skill_count) ==
    100 - Len(errors) * 15 - Len(warnings) * 5
        + KeywordBonus(keywords_matched, total_keywords, 20)
        + (IF 12 <= skill_count /\ skill_count <= 15 THEN 5 ELSE 0)

\* _calculate_score
Skills_calculate_score(errors, warnings, keywords_matched, total_keywords, skill_count) ==
    Clamp(Skills_raw_score(errors, warnings, keywords_matched, total_keywords, skill_count))

\* the duplicate check, lines 66-69
DuplicateWarnings(skills) ==
    LET duplicates == find_duplicates(skills)
    IN  IF duplicates # << >>
        THEN << <<"D","u","p","l","i","c","a","t","e"," ","s","k","i","l","l","s"," ","f","o","u","n","d",":"," ">> \o join(<<","," ">>, duplicates) >>
        ELSE << >>

\* SkillsValidator.validate
Skills_validate(skills_text, keywords) ==
    LET Result(errors, warnings, keywords_matched, skill_count) ==
            ValidationResult(errors, warnings,
                Skills_calculate_score(errors, warnings, keywords_matched,
                                       Len(keywords), skill_count),
                keywords_matched)
        Checked(skills, keywords_matched) ==
            Result(
                (IF keywords_matched < Skills_min_keywords
                 THEN << KeywordError(keywords_matched, Len(keywords),
                                      Skills_min_keywords) >>
                 ELSE << >>)
                \o (IF ~Skills_check_latex_format(skills_text)
                    THEN << <<"I","n","v","a","l","i","d"," ","L","a","T","e","X"," ","f","o","r","m","a","t"," ","-"," ","m","u","s","t"," ","u","s","e"," ","\\","i","t","e","m"," ","s","t","r","u","c","t","u","r","e">> >>
                    ELSE << >>),
                (IF Len(skills) < Skills_min_skills
                 THEN << <<"C","o","n","s","i","d","e","r"," ","a","d","d","i","n","g"," ","m","o","r","e"," ","s","k","i","l","l","s"," ","(","f","o","u","n","d"," ">> \o str(Len(skills))
                         \o <<","," ","r","e","c","o","m","m","e","n","d","e","d"," ">> \o str(Skills_min_skills) \o <<"+",")">> >>
                 ELSE IF Len(skills) > Skills_max_skills
                 THEN << <<"C","o","n","s","i","d","e","r"," ","r","e","d","u","c","i","n","g"," ","s","k","i","l","l","s"," ","(","f","o","u","n","d"," ">> \o str(Len(skills))
                         \o <<","," ","r","e","c","o","m","m","e","n","d","e","d"," ","m","a","x"," ">> \o str(Skills_max_skills) \o <<")">> >>
                 ELSE << >>)
                \o (IF ~has_categories(skills_text)
                    THEN << <<"C","o","n","s","i","d","e","r"," ","o","r","g","a","n","i","z","i","n","g"," ","s","k","i","l","l","s"," ","i","n","t","o"," ","c","a","t","e","g","o","r","i","e","s"," ","(","L","a","n","g","u","a","g","e","s",","," ","F","r","a","m","e","w","o","r","k","s",","," ","T","o","o","l","s",","," ","e","t","c",".",")">> >>
                    ELSE << >>)
                \o DuplicateWarnings(skills),
                keywords_matched, Len(skills))
        Parsed(skills) ==
            Checked(skills, count_keyword_matches(join(<<" ">>, skills), keywords))
    IN  Parsed(Skills_parse_skills(skills_text))
(* ------------------------------------------------------------------ *)
(* utils/latex_parser.py                                               *)
(* The patterns are compiled with re.DOTALL | re.IGNORECASE, so their   *)
(* literals are searched in the lower-cased document; every pattern is  *)
(* a chain of literals joined by '.*?', whose leftmost match takes the  *)
(* first occurrence of each literal after the one before it.           *)
(* ------------------------------------------------------------------ *)
SectionSummary == <<"\\","s","e","c","t","i","o","n","{","s","u","m","m","a","r","y","}">>
BeginItemize == <<"\\","b","e","g","i","n","{","i","t","e","m","i","z","e","}">>
EndItemize == <<"\\","e","n","d","{","i","t","e","m","i","z","e","}">>

\* what a call returns when it raises instead of returning a str
Raises == << "raise" >>

\* first 0-based offset >= i whose character is not '-'
RECURSIVE DashRunEnd(_, _)
DashRunEnd(t, i) == IF i < Len(t) /\ t[i + 1] = "-" THEN DashRunEnd(t, i + 1) ELSE i

\* '%-+SUMMARY-+' tried at offset i of t: the offset after its shortest match, or -1
SummaryAnchorEnd(t, i) ==
    LET After(d) == IF MatchAt(t, d, <<"s","u","m","m","a","r","y","-">>) THEN d + 8 ELSE -1
    IN  IF MatchAt(t, i, <<"%","-">>) THEN After(DashRunEnd(t, i + 1)) ELSE -1

\* the offsets of the literals ws, each searched after the end of the one
\* before it, starting at from; the list ends with -1 at the first one missing
RECURSIVE FindEach(_, _, _)
FindEach(t, from, ws) ==
    LET At(i) == IF i = -1 THEN << -1 >>
                 ELSE << i >> \o FindEach(t, i + Len(Head(ws)), Tail(ws))
    IN  IF ws = << >> THEN << >> ELSE At(Find(t, Head(ws), from))

\* leftmost match at or after from of the pattern of extract_summary_section,
\* line 18: << start, start of group 1, end of group 1, end >>, or << >>
SummaryExtractMatch(t, from) ==
    LET anchors == {i \in from..(Len(t) - 1) : SummaryAnchorEnd(t, i) # -1}
        Offsets(i, o) ==
            IF o[Len(o)] = -1 THEN << >>
            ELSE << i, o[2] + Len(BeginItemize), o[3], o[3] + Len(EndItemize) >>
        At(i) == Offsets(i, FindEach(t, SummaryAnchorEnd(t, i),
                                     << SectionSummary, BeginItemize, EndItemize >>))
    IN  IF anchors = {} THEN << >> ELSE At(First(anchors))

\* leftmost match at or after from of the pattern of replace_summary_section,
\* line 48, whose group 1 runs through the newline that ends the line of
\* \begin{itemize}: << start, start of group 2, end of group 2, end >>, or << >>
SummaryReplaceMatch(t, from) ==
    LET anchors == {i \in from..(Len(t) - 1) : SummaryAnchorEnd(t, i) # -1}
        Offsets(i, o) ==
            IF o[Len(o)] = -1 THEN << >>
            ELSE << i, o[3] + 1, o[4], o[4] + Len(EndItemize) >>
        At(i) == Offsets(i, FindEach(t, SummaryAnchorEnd(t, i),
                                     << SectionSummary, BeginItemize, << "\n" >>, EndItemize >>))
    IN  IF anchors = {} THEN << >> ELSE At(First(anchors))

\* re.findall(r'\\item\s+(.*?)(?=\\item|$)', s, re.DOTALL), scanning from offset from
RECURSIVE FindAllItems(_, _)
FindAllItems(s, from) ==
    LET item == <<"\\","i","t","e","m">>
        starts == {i \in from..(Len(s) - 6) : MatchAt(s, i, item) /\ IsSpace(s[i + 6])}
        Stops(p) == \/ MatchAt(s, p, item)
                    \/ p = Len(s)
                    \/ p = Len(s) - 1 /\ s[Len(s)] = "\n"
        Content(c, e) == << SubSeq(s, c + 1, e) >> \o FindAllItems(s, e)
        From(c) == Content(c, First({p \in c..Len(s) : Stops(p)}))
        At(i) == From(SkipSpace(s, i + 6) - 1)
    IN  IF starts = {} THEN << >> ELSE At(First(starts))

\* str.replace('\n', ' ')
ReplaceNewlines(s) == [k \in 1..Len(s) |-> IF s[k] = "\n" THEN " " ELSE s[k]]

\* extract_summary_section
extract_summary_section(latex_content) ==
    LET Clean(bullet) == IF bullet # << >> THEN << ReplaceNewlines(bullet) >> ELSE << >>
        Cleaned(bullets) == Flatten([b \in 1..Len(bullets) |-> Clean(strip(bullets[b]))])
        Result(cleaned_bullets) ==
            IF cleaned_bullets # << >> THEN Some(cleaned_bullets) ELSE None
        Matched(m) ==
            IF m = << >> THEN None
            ELSE Result(Cleaned(FindAllItems(SubSeq(latex_content, m[2] + 1, m[3]), 0)))
    IN  Matched(SummaryExtractMatch(lower(latex_content), 0))

\* the escapes of a replacement template that stand for one character
TemplateEscapes ==
    [c \in {"\\", "n", "r", "t", "f", "a", "b", "v"} |->
        CASE c = "\\" -> "\\" [] c = "n" -> "\n" [] c = "r" -> "\r" [] c = "t" -> "\t"
          [] c = "f" -> "\f" [] c = "a" -> "BEL" [] c = "b" -> "BS" [] c = "v" -> "VT"]

\* the expansion of a replacement template of re.sub for one match, groups
\* being << group 0, group 1, ... >>: a backslash before a digit is a group
\* reference, before one of \ n r t f a b v the character of that escape,
\* before another ASCII letter an error, and before anything else it is kept.
\* (Octal escapes and \g<name> do not occur in the templates built here.)
RECURSIVE ExpandTemplate(_, _)
ExpandTemplate(template, groups) ==
    LET Then(head, rest) == IF rest = Raises THEN Raises ELSE head \o rest
        Group(n, rest) ==
            IF n + 1 > Len(groups) THEN Raises
            ELSE Then(groups[n + 1], ExpandTemplate(rest, groups))
        Escape(c, rest) ==
            IF IsDigit(c) /\ rest # << >> /\ IsDigit(rest[1])
            THEN Group(int(<< c, rest[1] >>), Tail(rest))
            ELSE IF IsDigit(c) THEN Group(int(<< c >>), rest)
            ELSE IF c \in DOMAIN TemplateEscapes
            THEN Then(<< TemplateEscapes[c] >>, ExpandTemplate(rest, groups))
            ELSE IF IsAlpha(c) THEN Raises
            ELSE Then(<< "\\", c >>, ExpandTemplate(rest, groups))
        At(i) ==
            IF i = -1 THEN template
            ELSE IF i + 1 = Len(template) THEN Raises
            ELSE Then(SubSeq(template, 1, i),
                      Escape(template[i + 2], SliceFrom(template, i + 2)))
    IN  At(Find(template, << "\\" >>, 0))

\* re.sub(pattern, template, s) of replace_summary_section from offset from:
\* every match is replaced, there is no count
RECURSIVE SubSummary(_, _, _, _)
SubSummary(s, t, from, template) ==
    LET Groups(m) == << SubSeq(s, m[1] + 1, m[4]), SubSeq(s, m[1] + 1, m[2]),
                        SubSeq(s, m[2] + 1, m[3]), SubSeq(s, m[3] + 1, m[4]) >>
        Matched(m) ==
            IF m = << >> THEN SliceFrom(s, from)
            ELSE SubSeq(s, from + 1, m[1]) \o ExpandTemplate(template, Groups(m))
                    \o SubSummary(s, t, m[4], template)
    IN  Matched(SummaryReplaceMatch(t, from))

\* replace_summary_section; re.sub compiles the template before it searches,
\* so a template it rejects raises whether or not the pattern matches
replace_summary_section(latex_content, new_bullets) ==
    LET formatted_bullets ==
            join(<< "\n" >>, [b \in 1..Len(new_bullets) |-> <<"\\","\\","i","t","e","m"," ">> \o new_bullets[b]])
        Sub(replacement) ==
            IF ExpandTemplate(replacement, << << >>, << >>, << >>, << >> >>) = Raises
            THEN Raises
            ELSE SubSummary(latex_content, lower(latex_content), 0, replacement)
    IN  Sub(<<"\\","1">> \o formatted_bullets \o << "\n" >> \o <<"\\","3">>)

\* leftmost match of the pattern of lines 71 and 92:
\* << start of group (\resumeSubheading ... \resumeItemListEnd), its end >>, or << >>
ExperienceMatch(t) ==
    LET heading == <<"\\","s","e","c","t","i","o","n","{","p","r","o","f","e","s","s","i","o","n","a","l"," ","e","x","p","e","r","i","e","n","c","e","}">>
        list_start == <<"\\","r","e","s","u","m","e","s","u","b","h","e","a","d","i","n","g","l","i","s","t","s","t","a","r","t">>
        subheading == <<"\\","r","e","s","u","m","e","s","u","b","h","e","a","d","i","n","g">>
        list_end == <<"\\","r","e","s","u","m","e","i","t","e","m","l","i","s","t","e","n","d">>
        EntryAfter(k) == SkipSpace(t, k + Len(list_start) + 1) - 1
        Closed(p, e) == IF e = -1 THEN << >> ELSE << p, e + Len(list_end) >>
        Entry(p) == Closed(p, Find(t, list_end, p + Len(subheading)))
        Lists(starts) == IF starts = {} THEN << >> ELSE Entry(EntryAfter(First(starts)))
        Section(i) ==
            IF i = -1 THEN << >>
            ELSE Lists({k \in (i + Len(heading))..(Len(t) - Len(list_start)) :
                            /\ MatchAt(t, k, list_start)
                            /\ MatchAt(t, EntryAfter(k), subheading)})
    IN  Section(Find(t, heading, 0))

\* extract_first_experience
extract_first_experience(latex_content) ==
    LET Matched(m) == IF m = << >> THEN None
                      ELSE Some(strip(SubSeq(latex_content, m[1] + 1, m[2])))
    IN  Matched(ExperienceMatch(lower(latex_content)))

\* variant: the entry runs to the last \resumeItemListEnd of the document
replace_first_experience_greedy(latex_content, new_experience) ==
    LET list_end == <<"\\","r","e","s","u","m","e","i","t","e","m","l","i","s","t","e","n","d">>
        Last(ends) == CHOOSE k \in ends : \A j \in ends : j <= k
        Ends(t) == {k \in 0..Len(t) : MatchAt(t, k, list_end)}
        Matched(m) ==
            IF m = << >> THEN latex_content
            ELSE SubSeq(latex_content, 1, m[1]) \o new_experience
                    \o SliceFrom(latex_content,
                                 Last(Ends(lower(latex_content))) + Len(list_end))
    IN  Matched(ExperienceMatch(lower(latex_content)))

\* replace_first_experience: match.group(1) + new_experience, count=1
replace_first_experience(latex_content, new_experience) ==
    LET Matched(m) ==
            IF m = << >> THEN latex_content
            ELSE SubSeq(latex_content, 1, m[1]) \o new_experience
                    \o SliceFrom(latex_content, m[2])
    IN  Matched(ExperienceMatch(lower(latex_content)))

\* leftmost match of '\section{<name>}.*?\begin{itemize}.*?\end{itemize}':
\* << start, end >>, or << >>
SkillsMatch(t, heading) ==
    LET Offsets(o) == IF o[Len(o)] = -1 THEN << >> ELSE << o[1], o[3] + Len(EndItemize) >>
    IN  Offsets(FindEach(t, 0, << heading, BeginItemize, EndItemize >>))

\* the match of the SKILLS pattern, or else of the Technical Skills pattern
SkillsEitherMatch(t) ==
    LET Alternate(m) == IF m # << >> THEN m ELSE SkillsMatch(t, <<"\\","s","e","c","t","i","o","n","{","t","e","c","h","n","i","c","a","l"," ","s","k","i","l","l","s","}">>)
    IN  Alternate(SkillsMatch(t, <<"\\","s","e","c","t","i","o","n","{","s","k","i","l","l","s","}">>))

\* extract_skills_section
extract_skills_section(latex_content) ==
    LET Matched(m) == IF m = << >> THEN None
                      ELSE Some(strip(SubSeq(latex_content, m[1] + 1, m[2])))
    IN  Matched(SkillsEitherMatch(lower(latex_content)))

\* replace_skills_section: the matched block becomes new_skills, count=1
replace_skills_section(latex_content, new_skills) ==
    LET Matched(m) ==
            IF m = << >> THEN latex_content
            ELSE SubSeq(latex_content, 1, m[1]) \o new_skills
                    \o SliceFrom(latex_content, m[2])
    IN  Matched(SkillsEitherMatch(lower(latex_content)))

\* ---------------------------------------------------------------------
\* utils/jd_analyzer.py: JobDescriptionMetadata and JDAnalyzer
\* ---------------------------------------------------------------------

AlnumSet == UpperSet \cup LowerSet \cup DigitSet

\* end offset of the maximal run of characters of chars that starts at
\* 0-based offset i of s (i itself when the run is empty or i is past the end)
RunEnd(s, i, chars) ==
    IF i >= Len(s) THEN i
    ELSE CHOOSE j \in i..Len(s) :
            /\ j = Len(s) \/ s[j + 1] \notin chars
            /\ \A k \in (i + 1)..j : s[k] \in chars

\* valid_levels of validate_role_level, also the values of the fallback
valid_levels == << <<"J","u","n","i","o","r">>, <<"M","i","d">>, <<"S","e","n","i","o","r">>, <<"S","t","a","f","f">>, <<"L","e","a","d">> >>

\* any(term in s for term in terms)
AnyTermIn(terms, s) == \E n \in DOMAIN terms : Contains(s, terms[n])

\* a field validator that maps nothing
validate_role_level_unmapped(v) == v

\* JobDescriptionMetadata.validate_role_level
validate_role_level(v) ==
    LET Mapped(v_lower) ==
            IF Contains(v_lower, <<"j","u","n","i","o","r">>) \/ Contains(v_lower, <<"e","n","t","r","y">>) \/ <<"i">> = v_lower
            THEN <<"J","u","n","i","o","r">>
            ELSE IF Contains(v_lower, <<"s","e","n","i","o","r">>) \/ Contains(v_lower, <<"s","r">>)
                    \/ Contains(v_lower, <<"i","i","i">>)
            THEN <<"S","e","n","i","o","r">>
            ELSE IF Contains(v_lower, <<"s","t","a","f","f">>) \/ Contains(v_lower, <<"p","r","i","n","c","i","p","a","l">>)
                    \/ Contains(v_lower, <<"i","v">>)
            THEN <<"S","t","a","f","f">>
            ELSE IF Contains(v_lower, <<"l","e","a","d">>) \/ Contains(v_lower, <<"m","a","n","a","g","e","r">>)
            THEN <<"L","e","a","d">>
            ELSE <<"M","i","d">>
    IN  IF v \notin Range(valid_levels) THEN Mapped(lower(v)) ELSE v

\* JobDescriptionMetadata(...): the field validator runs on role_level
JobDescriptionMetadata(names, level, years_min, years_max, responsibilities, leadership) ==
    [company_names |-> names,
     role_level |-> validate_role_level(level),
     experience_years_min |-> years_min,
     experience_years_max |-> years_max,
     key_responsibilities |-> responsibilities,
     leadership_required |-> leadership]

\* JobDescriptionMetadata.get_leadership_guidance
get_leadership_guidance(self) ==
    IF self.leadership_required \/ self.role_level \in {<<"S","t","a","f","f">>, <<"L","e","a","d">>}
    THEN <<"L","e","a","d","e","r","s","h","i","p"," ","l","a","n","g","u","a","g","e"," ","e","n","c","o","u","r","a","g","e","d"," ","(","l","e","d",","," ","m","a","n","a","g","e","d",","," ","d","i","r","e","c","t","e","d",")">>
    ELSE IF self.role_level = <<"S","e","n","i","o","r">>
    THEN <<"M","o","d","e","r","a","t","e"," ","l","e","a","d","e","r","s","h","i","p"," ","l","a","n","g","u","a","g","e"," ","a","c","c","e","p","t","a","b","l","e"," ","(","l","e","d"," ","s","m","a","l","l"," ","t","e","a","m","s",","," ","m","e","n","t","o","r","e","d",")">>
    ELSE <<"U","s","e"," ","c","o","n","t","r","i","b","u","t","o","r"," ","l","a","n","g","u","a","g","e"," ","(","c","o","l","l","a","b","o","r","a","t","e","d",","," ","c","o","n","t","r","i","b","u","t","e","d",","," ","i","m","p","l","e","m","e","n","t","e","d",","," ","s","u","p","p","o","r","t","e","d",")">>

\* JDAnalyzer._get_cache_key: job_description[:200].strip()
CacheKeyLength == 200
_get_cache_key(job_description) ==
    strip(SubSeq(job_description, 1,
                 IF Len(job_description) < CacheKeyLength
                 THEN Len(job_description) ELSE CacheKeyLength))

\* a match of r'(?:at|join|for)\s+([A-Z][A-Za-z0-9]+)' at offset i of s:
\* << start of group 1, end >>, or << >>
CompanyAfterWordAt(s, i) ==
    LET Name(w, e) ==
            IF w < Len(s) /\ s[w + 1] \in UpperSet /\ e >= w + 2 THEN << w, e >> ELSE << >>
        Space(p, w) == IF w = p THEN << >> ELSE Name(w, RunEnd(s, w + 1, AlnumSet))
        Word(p) == IF p >= Len(s) THEN << >> ELSE Space(p, RunEnd(s, p, WhitespaceSet))
    IN  IF MatchAt(s, i, <<"a","t">>) THEN Word(i + 2)
        ELSE IF MatchAt(s, i, <<"j","o","i","n">>) THEN Word(i + 4)
        ELSE IF MatchAt(s, i, <<"f","o","r">>) THEN Word(i + 3)
        ELSE << >>

\* a match of r'([A-Z][A-Za-z0-9]+)\s+(?:is|are|seeks)' at offset i of s:
\* << end of group 1, end >>, or << >>
CompanyBeforeVerbAt(s, i) ==
    LET Verb(e, w) ==
            IF w = e THEN << >>
            ELSE IF MatchAt(s, w, <<"i","s">>) THEN << e, w + 2 >>
            ELSE IF MatchAt(s, w, <<"a","r","e">>) THEN << e, w + 3 >>
            ELSE IF MatchAt(s, w, <<"s","e","e","k","s">>) THEN << e, w + 5 >>
            ELSE << >>
        Name(e) == IF e < i + 2 THEN << >> ELSE Verb(e, RunEnd(s, e, WhitespaceSet))
    IN  IF i < Len(s) /\ s[i + 1] \in UpperSet THEN Name(RunEnd(s, i + 1, AlnumSet)) ELSE << >>

\* re.findall(company_patterns[0], s), scanning from offset from
RECURSIVE FindAllCompanyAfterWord(_, _)
FindAllCompanyAfterWord(s, from) ==
    LET starts == {i \in from..(Len(s) - 1) : CompanyAfterWordAt(s, i) # << >>}
        Matched(m) == << SubSeq(s, m[1] + 1, m[2]) >> \o FindAllCompanyAfterWord(s, m[2])
    IN  IF starts = {} THEN << >> ELSE Matched(CompanyAfterWordAt(s, First(starts)))

\* re.findall(company_patterns[1], s), scanning from offset from
RECURSIVE FindAllCompanyBeforeVerb(_, _)
FindAllCompanyBeforeVerb(s, from) ==
    LET starts == {i \in from..(Len(s) - 1) : CompanyBeforeVerbAt(s, i) # << >>}
        Matched(i, m) == << SubSeq(s, i + 1, m[1]) >> \o FindAllCompanyBeforeVerb(s, m[2])
        At(i) == Matched(i, CompanyBeforeVerbAt(s, i))
    IN  IF starts = {} THEN << >> ELSE At(First(starts))

\* list(set(company_names))[:3]: the order of a set of strings depends on the
\* hash seed of the process, so every order of the names is a possible list
CompanyLimit == 3
DeduplicateAndLimit(company_names) ==
    LET names == Range(company_names)
        size == IF Cardinality(names) < CompanyLimit THEN Cardinality(names) ELSE CompanyLimit
    IN  {l \in [1..size -> names] : \A a, b \in 1..size : l[a] = l[b] => a = b}

\* the role level chain with the word rules before the numeral rules
DefaultRoleLevel_words_first(jd_lower) ==
    IF AnyTermIn(<< <<"s","e","n","i","o","r">>, <<"s","r",".">> >>, jd_lower)
    THEN <<"S","e","n","i","o","r">>
    ELSE IF AnyTermIn(<< <<"e","n","g","i","n","e","e","r"," ","i","i">>, <<"i","i"," ">>, <<" ","i","i",",">>, <<"l","e","v","e","l"," ","i","i">>, <<"l","e","v","e","l"," ","2">> >>, jd_lower)
    THEN <<"M","i","d">>
    ELSE IF AnyTermIn(<< <<"e","n","g","i","n","e","e","r"," ","i","i","i">>, <<"i","i","i"," ">>, <<" ","i","i","i",",">>, <<"l","e","v","e","l"," ","i","i","i">>, <<"l","e","v","e","l"," ","3">> >>, jd_lower)
    THEN <<"S","e","n","i","o","r">>
    ELSE IF AnyTermIn(<< <<"e","n","g","i","n","e","e","r"," ","i"," ">>, <<" ","i"," ">>, <<" ","i",",">>, <<"l","e","v","e","l"," ","i">>, <<"l","e","v","e","l"," ","1">>, <<"j","u","n","i","o","r">>,
                         <<"e","n","t","r","y">> >>, jd_lower)
    THEN <<"J","u","n","i","o","r">>
    ELSE IF AnyTermIn(<< <<"e","n","g","i","n","e","e","r"," ","i","v">>, <<"i","v"," ">>, <<" ","i","v",",">>, <<"s","t","a","f","f">>, <<"p","r","i","n","c","i","p","a","l">> >>, jd_lower)
    THEN <<"S","t","a","f","f">>
    ELSE IF AnyTermIn(<< <<"l","e","a","d">>, <<"m","a","n","a","g","e","r">> >>, jd_lower)
    THEN <<"L","e","a","d">>
    ELSE <<"M","i","d">>

\* the role level chain of _get_default_metadata, lines 236-250
DefaultRoleLevel(jd_lower) ==
    IF AnyTermIn(<< <<"e","n","g","i","n","e","e","r"," ","i","i">>, <<"i","i"," ">>, <<" ","i","i",",">>, <<"l","e","v","e","l"," ","i","i">>, <<"l","e","v","e","l"," ","2">> >>, jd_lower)
    THEN <<"M","i","d">>
    ELSE IF AnyTermIn(<< <<"e","n","g","i","n","e","e","r"," ","i","i","i">>, <<"i","i","i"," ">>, <<" ","i","i","i",",">>, <<"l","e","v","e","l"," ","i","i","i">>, <<"l","e","v","e","l"," ","3">> >>, jd_lower)
    THEN <<"S","e","n","i","o","r">>
    ELSE IF AnyTermIn(<< <<"e","n","g","i","n","e","e","r"," ","i"," ">>, <<" ","i"," ">>, <<" ","i",",">>, <<"l","e","v","e","l"," ","i">>, <<"l","e","v","e","l"," ","1">>, <<"j","u","n","i","o","r">>,
                         <<"e","n","t","r","y">> >>, jd_lower)
    THEN <<"J","u","n","i","o","r">>
    ELSE IF AnyTermIn(<< <<"e","n","g","i","n","e","e","r"," ","i","v">>, <<"i","v"," ">>, <<" ","i","v",",">>, <<"s","t","a","f","f">>, <<"p","r","i","n","c","i","p","a","l">> >>, jd_lower)
    THEN <<"S","t","a","f","f">>
    ELSE IF AnyTermIn(<< <<"l","e","a","d">>, <<"m","a","n","a","g","e","r">> >>, jd_lower)
    THEN <<"L","e","a","d">>
    ELSE IF AnyTermIn(<< <<"s","e","n","i","o","r">>, <<"s","r",".">> >>, jd_lower)
    THEN <<"S","e","n","i","o","r">>
    ELSE <<"M","i","d">>

\* a match of r'(\d+)[\s-]+(?:to|-)?\s*(\d+)?\s*(?:\+)?\s*years?' at offset i
\* of s: << group 1, group 2 >> (group 2 empty when it took no part), or << >>
ExperienceYearsAt(s, i) ==
    LET Year(a, q, d, y) ==
            IF MatchAt(s, y, <<"y","e","a","r">>)
            THEN << SubSeq(s, i + 1, a), SubSeq(s, q + 1, d) >> ELSE << >>
        Plus(a, q, d, x) ==
            Year(a, q, d, IF x < Len(s) /\ s[x + 1] = "+"
                          THEN RunEnd(s, x + 1, WhitespaceSet) ELSE x)
        Upper(a, q, d) == Plus(a, q, d, RunEnd(s, d, WhitespaceSet))
        Lower(a, q) == Upper(a, q, RunEnd(s, q, DigitSet))
        Separator(a, r) ==
            IF r = a THEN << >>
            ELSE Lower(a, RunEnd(s, IF MatchAt(s, r, <<"t","o">>) THEN r + 2 ELSE r, WhitespaceSet))
        Digits(a) == Separator(a, RunEnd(s, a, WhitespaceSet \cup {"-"}))
    IN  IF i < Len(s) /\ IsDigit(s[i + 1]) THEN Digits(RunEnd(s, i, DigitSet)) ELSE << >>

\* exp_match of _get_default_metadata, line 253: the leftmost match, or << >>
ExperienceYearsSearch(s) ==
    LET starts == {i \in 0..(Len(s) - 1) : ExperienceYearsAt(s, i) # << >>}
    IN  IF starts = {} THEN << >> ELSE ExperienceYearsAt(s, First(starts))

\* JDAnalyzer._get_default_metadata: the set of metadata it can return,
\* one for each order of the deduplicated company names
_get_default_metadata(job_description) ==
    LET Build(names, jd_lower, exp_match) ==
            {JobDescriptionMetadata(
                 company_names,
                 DefaultRoleLevel(jd_lower),
                 IF exp_match # << >> THEN Some(int(exp_match[1])) ELSE None,
                 IF exp_match # << >> /\ exp_match[2] # << >>
                 THEN Some(int(exp_match[2])) ELSE None,
                 << >>,
                 AnyTermIn(<< <<"l","e","a","d"," ","t","e","a","m">>, <<"m","a","n","a","g","e"," ","t","e","a","m">>, <<"d","i","r","e","c","t"," ","r","e","p","o","r","t">>,
                              <<"p","e","o","p","l","e"," ","m","a","n","a","g","e","m","e","n","t">> >>, jd_lower))
             : company_names \in DeduplicateAndLimit(names)}
        Lowered(jd_lower) ==
            Build(FindAllCompanyAfterWord(job_description, 0)
                      \o FindAllCompanyBeforeVerb(job_description, 0),
                  jd_lower, ExperienceYearsSearch(jd_lower))
    IN  Lowered(lower(job_description))

\* ---- json.loads, for the JSON texts of Responses ----
\* A JSON value is << "dict", pairs >>, << "list", items >>, << "str", chars >>,
\* << "int", n >>, << "float", sign, whole, fraction digits >>, << "bool", b >> or
\* << "null" >>; pairs is the sequence of << key, value >> in the order read.
\* Not modelled, and absent from Responses: exponents, NaN and Infinity,
\* the string escapes \b, \f and \u.

StringEscapes == [c \in {"\"", "\\", "/", "n", "r", "t"} |->
                    CASE c = "n" -> "\n" [] c = "r" -> "\r" [] c = "t" -> "\t"
                      [] OTHER -> c]

\* the string whose opening quote ends at offset i of s:
\* << characters, end offset >>, or << >> when it is not a JSON string
RECURSIVE JsonString(_, _)
JsonString(s, i) ==
    LET Then(head, rest) == IF rest = << >> THEN << >> ELSE << head \o rest[1], rest[2] >>
        Stop(j) ==
            IF j >= Len(s) THEN << >>
            ELSE IF \E k \in (i + 1)..j : s[k] \in {"\n", "\r", "\t"} THEN << >>
            ELSE IF s[j + 1] = "\"" THEN << SubSeq(s, i + 1, j), j + 1 >>
            ELSE IF j + 2 > Len(s) \/ s[j + 2] \notin DOMAIN StringEscapes THEN << >>
            ELSE Then(SubSeq(s, i + 1, j) \o << StringEscapes[s[j + 2]] >>,
                      JsonString(s, j + 2))
    IN  Stop(RunEnd(s, i, Range(s) \ {"\"", "\\"}))

\* the number at offset i of s: << value, end offset >>, or << >>
JsonNumber(s, i) ==
    LET Fraction(sign, whole, e, f) ==
            IF e < Len(s) /\ s[e + 1] = "." /\ f > e + 1
            THEN << << "float", sign, whole, SubSeq(s, e + 2, f) >>, f >>
            ELSE << << "int", sign * whole >>, e >>
        Whole(sign, d, e) ==
            IF e = d THEN << >>
            ELSE IF s[d + 1] = "0"
            THEN Fraction(sign, 0, d + 1, RunEnd(s, d + 2, DigitSet))
            ELSE Fraction(sign, int(SubSeq(s, d + 1, e)), e, RunEnd(s, e + 1, DigitSet))
        Signed(sign, d) == Whole(sign, d, RunEnd(s, d, DigitSet))
    IN  IF i < Len(s) /\ s[i + 1] = "-" THEN Signed(-1, i + 1) ELSE Signed(1, i)

RECURSIVE JsonValue(_, _)
RECURSIVE JsonMembers(_, _, _)
RECURSIVE JsonElements(_, _, _)

\* the members of an object from offset i of s, which follows '{' or ',' and
\* the whitespace after it: << value, end offset >>, or << >>
JsonMembers(s, i, pairs) ==
    LET Next(key, v, e) ==
            IF e < Len(s) /\ s[e + 1] = "}"
            THEN << << "dict", Append(pairs, << key, v >>) >>, e + 1 >>
            ELSE IF e < Len(s) /\ s[e + 1] = ","
            THEN JsonMembers(s, RunEnd(s, e + 1, WhitespaceSet), Append(pairs, << key, v >>))
            ELSE << >>
        Member(key, value) ==
            IF value = << >> THEN << >>
            ELSE Next(key, value[1], RunEnd(s, value[2], WhitespaceSet))
        Colon(key, c) ==
            IF c < Len(s) /\ s[c + 1] = ":"
            THEN Member(key, JsonValue(s, RunEnd(s, c + 1, WhitespaceSet)))
            ELSE << >>
        Key(k) == IF k = << >> THEN << >> ELSE Colon(k[1], RunEnd(s, k[2], WhitespaceSet))
    IN  IF i < Len(s) /\ s[i + 1] = "\"" THEN Key(JsonString(s, i + 1)) ELSE << >>

\* the elements of an array from offset i of s, which follows '[' or ',' and
\* the whitespace after it: << value, end offset >>, or << >>
JsonElements(s, i, items) ==
    LET Next(v, e) ==
            IF e < Len(s) /\ s[e + 1] = "]"
            THEN << << "list", Append(items, v) >>, e + 1 >>
            ELSE IF e < Len(s) /\ s[e + 1] = ","
            THEN JsonElements(s, RunEnd(s, e + 1, WhitespaceSet), Append(items, v))
            ELSE << >>
        Element(value) ==
            IF value = << >> THEN << >>
            ELSE Next(value[1], RunEnd(s, value[2], WhitespaceSet))
    IN  Element(JsonValue(s, i))

\* the value at offset i of s: << value, end offset >>, or << >>
JsonValue(s, i) ==
    LET Object(m) ==
            IF m < Len(s) /\ s[m + 1] = "}" THEN << << "dict", << >> >>, m + 1 >>
            ELSE JsonMembers(s, m, << >>)
        Array(m) ==
            IF m < Len(s) /\ s[m + 1] = "]" THEN << << "list", << >> >>, m + 1 >>
            ELSE JsonElements(s, m, << >>)
        String(str_end) ==
            IF str_end = << >> THEN << >> ELSE << << "str", str_end[1] >>, str_end[2] >>
    IN  IF i >= Len(s) THEN << >>
        ELSE IF s[i + 1] = "{" THEN Object(RunEnd(s, i + 1, WhitespaceSet))
        ELSE IF s[i + 1] = "[" THEN Array(RunEnd(s, i + 1, WhitespaceSet))
        ELSE IF s[i + 1] = "\"" THEN String(JsonString(s, i + 1))
        ELSE IF MatchAt(s, i, <<"n","u","l","l">>) THEN << << "null" >>, i + 4 >>
        ELSE IF MatchAt(s, i, <<"t","r","u","e">>) THEN << << "bool", TRUE >>, i + 4 >>
        ELSE IF MatchAt(s, i, <<"f","a","l","s","e">>) THEN << << "bool", FALSE >>, i + 5 >>
        ELSE JsonNumber(s, i)

\* json.loads(s): << "ok", value >>, or Raises for a JSONDecodeError
json_loads(s) ==
    LET Whole(value) ==
            IF value = << >> THEN Raises
            ELSE IF RunEnd(s, value[2], WhitespaceSet) # Len(s) THEN Raises
            ELSE << "ok", value[1] >>
    IN  Whole(JsonValue(s, RunEnd(s, 0, WhitespaceSet)))

\* the fence of a markdown code block: three backquotes. A TLA+ string cannot
\* hold a backquote, so the model writes it as @, which Responses do not use
\* for anything else
Fence == <<"@","@","@">>

\* a match of r'```(?:json)?\s*(\{.*?\})\s*```' (re.DOTALL) at offset i of s:
\* << start of group 1, end of group 1 >>, or << >>
FencedJsonAt(s, i) ==
    LET Closed(b) ==
            LET ends == {e \in (b + 1)..(Len(s) - 1) :
                            /\ s[e + 1] = "}"
                            /\ MatchAt(s, RunEnd(s, e + 1, WhitespaceSet), Fence)}
            IN  IF ends = {} THEN << >> ELSE << b, First(ends) + 1 >>
        Open(b) == IF b < Len(s) /\ s[b + 1] = "{" THEN Closed(b) ELSE << >>
        Tag(j) == Open(RunEnd(s, j, WhitespaceSet))
    IN  IF ~MatchAt(s, i, Fence) THEN << >>
        ELSE IF MatchAt(s, i + 3, <<"j","s","o","n">>) THEN Tag(i + 7)
        ELSE Tag(i + 3)

\* str.rfind(w): greatest 0-based offset, or -1
RFind(s, w) ==
    IF \E i \in 0..(Len(s) - Len(w)) : MatchAt(s, i, w)
    THEN CHOOSE i \in 0..(Len(s) - Len(w)) :
            /\ MatchAt(s, i, w)
            /\ \A k \in (i + 1)..(Len(s) - Len(w)) : ~MatchAt(s, k, w)
    ELSE -1

\* the text _parse_json_response hands to json.loads, lines 190-201
JsonTextOf(response_text) ==
    LET Braces(t, start, end) ==
            IF start # -1 /\ end # -1 THEN SubSeq(t, start + 1, end + 1) ELSE t
        Stripped(t) ==
            IF ~startswith(t, <<"{">>) THEN Braces(t, Find(t, <<"{">>, 0), RFind(t, <<"}">>)) ELSE t
        Group(json_match) ==
            Stripped(strip(IF json_match # << >>
                           THEN SubSeq(response_text, json_match[1] + 1, json_match[2])
                           ELSE response_text))
        starts == {i \in 0..(Len(response_text) - 1) : FencedJsonAt(response_text, i) # << >>}
    IN  Group(IF starts = {} THEN << >> ELSE FencedJsonAt(response_text, First(starts)))

\* JDAnalyzer._parse_json_response: << "ok", value >>, or Raises
_parse_json_response(response_text) == json_loads(JsonTextOf(response_text))

\* the value of the last pair of pairs whose key is key, or << >>
JsonGet(pairs, key) ==
    LET at == {n \in DOMAIN pairs : pairs[n][1] = key}
    IN  IF at = {} THEN << >> ELSE pairs[CHOOSE n \in at : \A m \in at : m <= n][2]

\* the strings that pydantic reads as a bool, in lower case
TrueStrings == {<<"t","r","u","e">>, <<"y","e","s">>, <<"o","n">>, <<"1">>, <<"t">>, <<"y">>}
FalseStrings == {<<"f","a","l","s","e">>, <<"n","o">>, <<"o","f","f">>, <<"0">>, <<"f">>, <<"n">>}

\* validation of a List[str] field (lines 15, 31): << "ok", list >>, or Raises;
\* << >> is the key being absent, which gives the default []
StringListField(v) ==
    IF v = << >> THEN << "ok", << >> >>
    ELSE IF v[1] # "list" THEN Raises
    ELSE IF \E n \in DOMAIN v[2] : v[2][n][1] # "str" THEN Raises
    ELSE << "ok", [n \in DOMAIN v[2] |-> v[2][n][2]] >>

\* validation of the str field role_level (line 19): << "ok", string >>, or Raises
StringField(v, default) ==
    IF v = << >> THEN << "ok", default >>
    ELSE IF v[1] # "str" THEN Raises
    ELSE << "ok", v[2] >>

\* validation of an Optional[int] field (lines 23, 27): << "ok", Optional >>, or
\* Raises; a string of digits and a float without fraction are read as an int
OptionalIntField(v) ==
    IF v = << >> THEN << "ok", None >>
    ELSE IF v[1] = "null" THEN << "ok", None >>
    ELSE IF v[1] = "int" THEN << "ok", Some(v[2]) >>
    ELSE IF v[1] = "float" /\ \A k \in DOMAIN v[4] : v[4][k] = "0"
    THEN << "ok", Some(v[2] * v[3]) >>
    ELSE IF v[1] = "str" /\ v[2] # << >> /\ \A k \in DOMAIN v[2] : IsDigit(v[2][k])
    THEN << "ok", Some(int(v[2])) >>
    ELSE Raises

\* validation of the bool field leadership_required (line 35): << "ok", bool >>, or Raises
BoolField(v) ==
    IF v = << >> THEN << "ok", FALSE >>
    ELSE IF v[1] = "bool" THEN << "ok", v[2] >>
    ELSE IF v[1] = "int" /\ v[2] \in {0, 1} THEN << "ok", v[2] = 1 >>
    ELSE IF v[1] = "str" /\ lower(v[2]) \in TrueStrings THEN << "ok", TRUE >>
    ELSE IF v[1] = "str" /\ lower(v[2]) \in FalseStrings THEN << "ok", FALSE >>
    ELSE Raises

\* JobDescriptionMetadata(**metadata_dict) of analyze, line 143:
\* << "ok", metadata >>, or Raises (a TypeError when the JSON value is not an
\* object, a ValidationError when a field has the wrong type)
MetadataFromDict(metadata_dict) ==
    LET Fields(names, level, years_min, years_max, responsibilities, leadership) ==
            IF \/ names = Raises \/ level = Raises \/ years_min = Raises
               \/ years_max = Raises \/ responsibilities = Raises \/ leadership = Raises
            THEN Raises
            ELSE << "ok", JobDescriptionMetadata(names[2], level[2], years_min[2],
                                                 years_max[2], responsibilities[2],
                                                 leadership[2]) >>
        Dict(pairs) ==
            Fields(StringListField(JsonGet(pairs, <<"c","o","m","p","a","n","y","_","n","a","m","e","s">>)),
                   StringField(JsonGet(pairs, <<"r","o","l","e","_","l","e","v","e","l">>), <<"M","i","d">>),
                   OptionalIntField(JsonGet(pairs, <<"e","x","p","e","r","i","e","n","c","e","_","y","e","a","r","s","_","m","i","n">>)),
                   OptionalIntField(JsonGet(pairs, <<"e","x","p","e","r","i","e","n","c","e","_","y","e","a","r","s","_","m","a","x">>)),
                   StringListField(JsonGet(pairs, <<"k","e","y","_","r","e","s","p","o","n","s","i","b","i","l","i","t","i","e","s">>)),
                   BoolField(JsonGet(pairs, <<"l","e","a","d","e","r","s","h","i","p","_","r","e","q","u","i","r","e","d">>)))
    IN  IF metadata_dict[1] # "dict" THEN Raises ELSE Dict(metadata_dict[2])

\* What client.messages.create did in one call of analyze: << "error" >> when
\* it raised, << "text", t >> when response.content[0].text was t, and
\* << "none" >> when analyze returned before calling it.
NotCalled == << "none" >>
ServiceError == << "error" >>
ServiceText(t) == << "text", t >>

\* the try block of analyze, lines 127-143: << "ok", metadata >>, or Raises
\* for any exception raised inside it
TryAnalyze(response) ==
    LET Parsed(metadata_dict) ==
            IF metadata_dict = Raises THEN Raises ELSE MetadataFromDict(metadata_dict[2])
    IN  IF response = ServiceError THEN Raises
        ELSE Parsed(_parse_json_response(strip(response[2])))

\* self._cache is a dict; the model keeps it as the set of its << key, value >> items
CacheKeys(cache) == {item[1] : item \in cache}
CacheGet(cache, key) == (CHOOSE item \in cache : item[1] = key)[2]
CacheSet(cache, key, value) == {item \in cache : item[1] # key} \cup {<< key, value >>}
(* ------------------------------------------------------------------ *)
(* The state machine: one validate call on one input.                  *)
(* ------------------------------------------------------------------ *)
VARIABLES
    section,        \* which validator is called: "summary", "experience" or "skills"
    input_text,     \* the section text handed to validate
    input_keywords, \* the keyword list handed to validate
    input_context,  \* Optional[SummaryValidationContext] (summary only)
    result,         \* None before the call, Some(ValidationResult) after it
    latex_document,  \* the LaTeX document handed to utils/latex_parser.py
    latex_call,     \* << >> before a call, then << function name, second argument >>
    latex_return,   \* what the call returned
    analyzer_cache,     \* JDAnalyzer._cache, as the set of its << key, metadata >> items
    analyzer_call,      \* << >> before a call of analyze, then << job_description, use_cache >>
    analyzer_response,  \* what client.messages.create did in that call
    analyzer_return,    \* what the call returned: << "ok", metadata >>
    session,        \* st.session_state of app.py
    session_shown   \* what display_results has drawn since the last rerun, or << >>

validator_vars == << section, input_text, input_keywords, input_context, result >>
latex_vars == << latex_document, latex_call, latex_return >>
analyzer_vars == << analyzer_cache, analyzer_call, analyzer_response, analyzer_return >>
session_vars == << session, session_shown >>
vars == << validator_vars, latex_vars, analyzer_vars, session_vars >>

\* what an action of one part of the program leaves alone
not_validator_vars == << latex_vars, analyzer_vars, session_vars >>
not_latex_vars == << validator_vars, analyzer_vars, session_vars >>
not_analyzer_vars == << validator_vars, latex_vars, session_vars >>
not_session_vars == << validator_vars, latex_vars, analyzer_vars >>

\* the parts of the state a specification does not use stay at these values
ValidatorsIdle ==
    section = "none" /\ input_text = << >> /\ input_keywords = << >> /\ input_context = None /\ result = None
LatexIdle == latex_document = << >> /\ latex_call = << >> /\ latex_return = << >>
AnalyzerIdle ==
    /\ analyzer_cache = {}
    /\ analyzer_call = << >>
    /\ analyzer_response = << "none" >>
    /\ analyzer_return = << >>
SessionIdle == session = << >> /\ session_shown = << >>

(* Bounds of the inputs. *)
MaxBullets == 5       \* summary bullets per text
MaxItems == 7         \* \resumeItem entries per experience block
MaxSkillLines == 4    \* lines per skills text

(* Keyword lists. *)
KeywordLists ==
    { << >>,
      << <<"P","y","t","h","o","n">>, <<"A","W","S">>, <<"R","u","s","t">> >>,
      << <<"A","I">>, <<"h","e","a","l","t","h","c","a","r","e">>, <<"G","e","n","A","I">>, <<"P","y","T","o","r","c","h">> >>,
      << <<"P","y","t","h","o","n">>, <<"A","W","S">>, <<"S","Q","L">>, <<"D","o","c","k","e","r">>, <<"P","y","T","o","r","c","h">>, <<"h","e","a","l","t","h","c","a","r","e">>, <<"G","e","n","A","I">>, <<"K","u","b","e","r","n","e","t","e","s">> >> }

\* the list of test_validation.py and the eight-entry list
TestKeywordLists ==
    { << <<"A","I">>, <<"h","e","a","l","t","h","c","a","r","e">>, <<"G","e","n","A","I">>, <<"P","y","T","o","r","c","h">> >>,
      << <<"P","y","t","h","o","n">>, <<"A","W","S">>, <<"S","Q","L">>, <<"D","o","c","k","e","r">>, <<"P","y","T","o","r","c","h">>, <<"h","e","a","l","t","h","c","a","r","e">>, <<"G","e","n","A","I">>, <<"K","u","b","e","r","n","e","t","e","s">> >> }

(* Summary bullets: the four of test_validation.py and three short ones. *)
SummaryBullets ==
    << <<"A","I"," ","E","n","g","i","n","e","e","r"," ","w","i","t","h"," ","6","+"," ","y","r","s"," ","b","u","i","l","d","i","n","g"," ","h","e","a","l","t","h","c","a","r","e"," ","A","I"," ","s","y","s","t","e","m","s",","," ","l","e","a","d","i","n","g"," ","c","r","o","s","s","-","f","u","n","c","t","i","o","n","a","l"," ","t","e","a","m"," ","s","o","l","u","t","i","o","n","s"," ","f","o","r"," ","R","3","7">>,
       <<"C","o","l","l","a","b","o","r","a","t","e","d"," ","w","i","t","h"," ","b","u","s","i","n","e","s","s"," ","s","t","a","k","e","h","o","l","d","e","r","s"," ","t","o"," ","d","e","p","l","o","y"," ","p","r","o","d","u","c","t","i","o","n"," ","G","e","n","A","I"," ","s","y","s","t","e","m","s",","," ","r","e","d","u","c","i","n","g"," ","m","a","n","u","a","l"," ","w","o","r","k"," ","b","y"," ","4","0","%">>,
       <<"B","u","i","l","t"," ","A","I","-","d","r","i","v","e","n"," ","s","o","l","u","t","i","o","n","s"," ","f","o","r"," ","u","n","s","t","r","u","c","t","u","r","e","d"," ","h","e","a","l","t","h","c","a","r","e"," ","d","a","t","a"," ","u","s","i","n","g"," ","P","y","T","o","r","c","h"," ","a","n","d"," ","A","W","S",","," ","s","e","r","v","i","n","g"," ","9","5","+"," ","h","o","s","p","i","t","a","l"," ","s","y","s","t","e","m","s">>,
       <<"L","e","d"," ","t","e","a","m"," ","e","x","p","e","r","i","e","n","c","e"," ","i","n","i","t","i","a","t","i","v","e","s"," ","i","m","p","l","e","m","e","n","t","i","n","g"," ","M","L"," ","p","i","p","e","l","i","n","e","s"," ","t","h","a","t"," ","d","e","l","i","v","e","r","e","d"," ","\\","$","2","M"," ","i","n"," ","c","o","s","t"," ","s","a","v","i","n","g","s"," ","a","n","n","u","a","l","l","y">>,
       <<"D","e","p","l","o","y","e","d"," ","R","3","7","x"," ","m","o","d","e","l","s"," ","a","t"," ","R","1"," ","a","n","d"," ","R","3","7",".">>,
       <<"E","n","g","i","n","e","e","r"," ","w","i","t","h"," ","3"," ","y","e","a","r","s"," ","o","f"," ","P","y","t","h","o","n",","," ","A","W","S",","," ","S","Q","L",","," ","D","o","c","k","e","r"," ","a","n","d"," ","P","y","T","o","r","c","h"," ","i","n"," ","h","e","a","l","t","h","c","a","r","e">>,
       <<"S","u","p","p","o","r","t","e","d"," ","m","a","n","a","g","e","r","s"," ","a","n","d"," ","m","i","s","l","e","a","d","i","n","g"," ","l","e","a","d","s">> >>
RestBullets == {2, 5, 6}

\* b followed by a blank and filler letters up to n characters (b itself when n is 0
\* or b is already that long)
PadTo(b, n) ==
    IF Len(b) >= n THEN b
    ELSE b \o << " " >> \o [k \in 1..(n - Len(b) - 1) |-> "z"]
PadLengths == {0, summary_char_min - 1, summary_char_min, summary_char_max, summary_char_max + 1}

\* the length the later bullets are padded to when the first is padded to pad: the
\* limit on the other side, so that one text holds bullets at both limits
Mirror(pad) == IF pad = 0 THEN 0 ELSE summary_char_min + summary_char_max - pad

\* a summary text of L bullets, one '\item' line each, after an optional heading line
SummaryText(heading, first, rest, L, pad) ==
    join(<< "\n" >>,
         (IF heading THEN << <<" "," ","S","u","m","m","a","r","y",":">> >> ELSE << >>)
         \o [i \in 1..L |->
                (IF heading THEN <<" "," ","\\","i","t","e","m"," ">> ELSE <<"\\","i","t","e","m"," ">>)
                \o (IF i = 1 THEN PadTo(SummaryBullets[first], pad)
                    ELSE PadTo(SummaryBullets[rest], Mirror(pad)))])
\* every bullet with every follower, unpadded: the semantic rules
SemanticSummaryTexts ==
    { SummaryText(FALSE, f, r, L, 0) :
        f \in DOMAIN SummaryBullets, r \in RestBullets, L \in 0..MaxBullets }
\* bullets padded around the length limits, with and without a heading line
PaddedSummaryTexts ==
    { SummaryText(h, f, 6, L, p) :
        h \in BOOLEAN, f \in {1, 2, 6}, L \in 0..MaxBullets, p \in PadLengths }

(* Validation contexts, as generate_all_sections and the test scripts build them. *)
Contexts ==
    { [company_names |-> n, role_level |-> IF l THEN <<"L","e","a","d">> ELSE <<"M","i","d">>,
       max_experience_years |-> m, leadership_allowed |-> l] :
        n \in { << >>, << <<"R","3","7">>, <<"R","1">> >> }, l \in BOOLEAN, m \in { None, Some(5) } }
\* the context of debug_validators.py
DebugContext ==
    [company_names |-> << <<"R","3","7">>, <<"R","1">> >>, role_level |-> <<"M","i","d">>,
     max_experience_years |-> Some(5), leadership_allowed |-> FALSE]
OptionalContexts == { None } \cup { Some(c) : c \in Contexts }

(* Experience blocks. *)
ExperienceItems ==
    << <<"D","e","v","e","l","o","p","e","d"," ","M","L"," ","p","i","p","e","l","i","n","e","s"," ","w","i","t","h"," ","P","y","t","h","o","n"," ","a","n","d"," ","A","W","S",","," ","c","u","t","t","i","n","g"," ","l","a","t","e","n","c","y"," ","b","y"," ","4","0","\\","%">>,
       <<"L","e","d"," ","a"," ","t","e","a","m"," ","o","f"," ","5"," ","e","n","g","i","n","e","e","r","s",".">>,
       <<"W","o","r","k","e","d"," ","o","n"," ","\\","t","e","x","t","b","f","{","P","y","T","o","r","c","h","}"," ","m","o","d","e","l","s"," ","f","o","r"," ","h","e","a","l","t","h","c","a","r","e">>,
       <<" ","b","u","i","l","t"," ","d","a","s","h","b","o","a","r","d","s"," ","i","n"," ","S","Q","L"," ","s","e","r","v","i","n","g"," ","3","x"," ","m","o","r","e"," ","u","s","e","r","s"," ">> >>
ExperienceText(heading, first, rest, n) ==
    join(<< "\n" >>,
         (IF heading THEN << <<"\\","r","e","s","u","m","e","S","u","b","h","e","a","d","i","n","g","{","A","I"," ","E","n","g","i","n","e","e","r","}","{","2","0","2","2"," ","-","-"," ","P","r","e","s","e","n","t","}","{","A","c","m","e","}","{","R","e","m","o","t","e","}">> >>
          ELSE << >>)
         \o << <<"\\","r","e","s","u","m","e","I","t","e","m","L","i","s","t","S","t","a","r","t">> >>
         \o [i \in 1..n |->
                <<" "," ","\\","r","e","s","u","m","e","I","t","e","m","{">> \o ExperienceItems[IF i = 1 THEN first ELSE rest] \o <<"}">>]
         \o << <<"\\","r","e","s","u","m","e","I","t","e","m","L","i","s","t","E","n","d">> >>)
ExperienceTexts ==
    { ExperienceText(h, f, r, n) :
        h \in BOOLEAN, f \in DOMAIN ExperienceItems, r \in DOMAIN ExperienceItems,
        n \in 0..MaxItems }

(* Skills texts. *)
SkillLines ==
    << <<"\\","i","t","e","m"," ","\\","t","e","x","t","b","f","{","L","a","n","g","u","a","g","e","s",":","}"," ","P","y","t","h","o","n",","," ","J","a","v","a",","," ","S","Q","L",","," ","p","y","t","h","o","n">>,
       <<" "," ","\\","i","t","e","m"," ","P","y","t","h","o","n",","," ","A","W","S",";"," ","D","o","c","k","e","r"," ","|"," ","p","y","t","h","o","n",","," ","P","Y","T","H","O","N">>,
       <<"\\","i","t","e","m"," ","\\","t","e","x","t","b","f","{","T","o","o","l","s","}",":"," ","D","o","c","k","e","r",","," ","G","i","t",","," ","A","W","S",","," ","K","u","b","e","r","n","e","t","e","s",","," ","T","e","r","r","a","f","o","r","m">>,
       <<"\\","i","t","e","m"," ","P","y","T","o","r","c","h",","," ","T","e","n","s","o","r","F","l","o","w",","," ","P","a","n","d","a","s",","," ","N","u","m","P","y",","," ","S","p","a","r","k",","," ","A","i","r","f","l","o","w">>,
       <<"F","r","a","m","e","w","o","r","k","s",":"," ","D","j","a","n","g","o">> >>
SkillsText(heading, first, rest, n) ==
    join(<< "\n" >>,
         (IF heading THEN << <<"\\","s","e","c","t","i","o","n","{","T","e","c","h","n","i","c","a","l"," ","S","k","i","l","l","s","}">>, <<"\\","b","e","g","i","n","{","i","t","e","m","i","z","e","}">> >> ELSE << >>)
         \o [i \in 1..n |-> SkillLines[IF i = 1 THEN first ELSE rest]]
         \o (IF heading THEN << <<"\\","e","n","d","{","i","t","e","m","i","z","e","}">> >> ELSE << >>))
SkillsTexts ==
    { SkillsText(h, f, r, n) :
        h \in BOOLEAN, f \in DOMAIN SkillLines, r \in DOMAIN SkillLines,
        n \in 0..MaxSkillLines }

Init ==
    /\ result = None
    /\ input_keywords \in KeywordLists
    /\ \/ /\ section = "summary"
          /\ \/ input_text \in SemanticSummaryTexts /\ input_context \in OptionalContexts
                /\ input_keywords \in TestKeywordLists
             \/ input_text \in PaddedSummaryTexts /\ input_context \in { None, Some(DebugContext) }
       \/ section = "experience" /\ input_text \in ExperienceTexts /\ input_context = None
       \/ section = "skills" /\ input_text \in SkillsTexts /\ input_context = None
    /\ LatexIdle
    /\ AnalyzerIdle
    /\ SessionIdle

ValidateSummary ==
    /\ section = "summary"
    /\ result = None
    /\ result' = Some(Summary_validate(input_text, input_keywords, input_context))
    /\ UNCHANGED << section, input_text, input_keywords, input_context >>
    /\ UNCHANGED not_validator_vars

ValidateExperience ==
    /\ section = "experience"
    /\ result = None
    /\ result' = Some(Experience_validate(input_text, input_keywords))
    /\ UNCHANGED << section, input_text, input_keywords, input_context >>
    /\ UNCHANGED not_validator_vars

ValidateSkills ==
    /\ section = "skills"
    /\ result = None
    /\ result' = Some(Skills_validate(input_text, input_keywords))
    /\ UNCHANGED << section, input_text, input_keywords, input_context >>
    /\ UNCHANGED not_validator_vars

Next == ValidateSummary \/ ValidateExperience \/ ValidateSkills

Spec == Init /\ [][Next]_vars


(* ------------------------------------------------------------------ *)
(* The section engine: each function of utils/latex_parser.py applied  *)
(* to a loaded document.                                               *)
(* ------------------------------------------------------------------ *)
MaxNewBullets == 2    \* bullets per replacement list

DocumentHead == <<"\\","d","o","c","u","m","e","n","t","c","l","a","s","s","{","a","r","t","i","c","l","e","}","\n","\\","b","e","g","i","n","{","d","o","c","u","m","e","n","t","}","\n">>
DocumentTail == <<"\\","e","n","d","{","d","o","c","u","m","e","n","t","}","\n">>

\* the Summary part of a document: absent, well formed, and the malformed
\* shapes (list on the heading's line, empty list, list never closed, no marker)
SummarySections ==
    << << >>,
       <<"%","-","-","-","-","-","S","U","M","M","A","R","Y","-","-","-","-","-","\n","\\","s","e","c","t","i","o","n","{","S","u","m","m","a","r","y","}","\n","\\","b","e","g","i","n","{","i","t","e","m","i","z","e","}","[","l","e","f","t","m","a","r","g","i","n","=","*","]","\n","\\","i","t","e","m"," ","M","L"," ","e","n","g","i","n","e","e","r"," ","w","i","t","h"," ","4"," ","y","r","s","\n","\\","i","t","e","m"," ","C","u","t"," ","l","a","t","e","n","c","y"," ","b","y"," ","3","0","\\","%","\n","\\","e","n","d","{","i","t","e","m","i","z","e","}","\n">>,
       <<"%","-","S","U","M","M","A","R","Y","-","\n","\\","s","e","c","t","i","o","n","{","S","u","m","m","a","r","y","}","\n","\\","b","e","g","i","n","{","i","t","e","m","i","z","e","}","\n"," "," ","\\","i","t","e","m"," ","E","n","g","i","n","e","e","r"," ","w","i","t","h","\n"," "," "," "," ","4"," ","y","r","s","\n"," "," ","\\","i","t","e","m"," ","L","e","d"," ","R","\\","&","D"," "," ","\n","\\","e","n","d","{","i","t","e","m","i","z","e","}","\n">>,
       <<"%","-","-","S","U","M","M","A","R","Y","-","-","\n","\\","s","e","c","t","i","o","n","{","S","u","m","m","a","r","y","}","\n","\\","b","e","g","i","n","{","i","t","e","m","i","z","e","}","\n","\\","i","t","e","m"," ","B","u","i","l","t"," ","\\","t","e","x","t","b","f","{","A","W","S","}"," ","p","i","p","e","l","i","n","e","s","\n","\\","e","n","d","{","i","t","e","m","i","z","e","}","\n">>,
       <<"%","-","-","S","U","M","M","A","R","Y","-","-","\n","\\","s","e","c","t","i","o","n","{","S","u","m","m","a","r","y","}","\n","\\","b","e","g","i","n","{","i","t","e","m","i","z","e","}","\n","\\","i","t","e","m"," ","T","y","p","e","s","e","t"," ","i","n"," ","\\","L","a","T","e","X","\n","\\","i","t","e","m"," ","R","a","n"," ","o","p","s","\n","\\","e","n","d","{","i","t","e","m","i","z","e","}","\n">>,
       <<"%","-","s","u","m","m","a","r","y","-","\n","\\","S","E","C","T","I","O","N","{","S","u","m","m","a","r","y","}"," ","\\","b","e","g","i","n","{","i","t","e","m","i","z","e","}"," ","\\","i","t","e","m"," ","O","n","e","\n","\\","i","t","e","m"," ","T","w","o","\n","\\","e","n","d","{","i","t","e","m","i","z","e","}","\n">>,
       <<"%","-","S","U","M","M","A","R","Y","-","\n","\\","s","e","c","t","i","o","n","{","S","u","m","m","a","r","y","}","\n","\\","b","e","g","i","n","{","i","t","e","m","i","z","e","}","\n","\\","e","n","d","{","i","t","e","m","i","z","e","}","\n">>,
       <<"%","-","S","U","M","M","A","R","Y","-","\n","\\","s","e","c","t","i","o","n","{","S","u","m","m","a","r","y","}","\n","\\","b","e","g","i","n","{","i","t","e","m","i","z","e","}","\n","\\","i","t","e","m"," ","L","o","s","t","\n">>,
       <<"\\","s","e","c","t","i","o","n","{","S","u","m","m","a","r","y","}","\n","\\","b","e","g","i","n","{","i","t","e","m","i","z","e","}","\n","\\","i","t","e","m"," ","P","l","a","i","n","\n","\\","e","n","d","{","i","t","e","m","i","z","e","}","\n">> >>

ExperienceSections ==
    << << >>,
       <<"\\","s","e","c","t","i","o","n","{","P","r","o","f","e","s","s","i","o","n","a","l"," ","E","x","p","e","r","i","e","n","c","e","}","\n","\\","r","e","s","u","m","e","S","u","b","H","e","a","d","i","n","g","L","i","s","t","S","t","a","r","t","\n","\\","r","e","s","u","m","e","S","u","b","h","e","a","d","i","n","g","{","A","c","m","e","}","{","2","0","2","1","}","\n","\\","r","e","s","u","m","e","I","t","e","m","L","i","s","t","S","t","a","r","t","\n","\\","r","e","s","u","m","e","I","t","e","m","{","B","u","i","l","t"," ","A","P","I","s","}","\n","\\","r","e","s","u","m","e","I","t","e","m","L","i","s","t","E","n","d","\n","\\","r","e","s","u","m","e","S","u","b","H","e","a","d","i","n","g","L","i","s","t","E","n","d","\n">>,
       <<"\\","s","e","c","t","i","o","n","{","E","d","u","c","a","t","i","o","n","}","\n","\\","r","e","s","u","m","e","S","u","b","H","e","a","d","i","n","g","L","i","s","t","S","t","a","r","t","\n","\\","r","e","s","u","m","e","S","u","b","h","e","a","d","i","n","g","{","M","I","T","}","{","2","0","1","9","}","\n","\\","r","e","s","u","m","e","S","u","b","H","e","a","d","i","n","g","L","i","s","t","E","n","d","\n","\\","s","e","c","t","i","o","n","{","P","r","o","f","e","s","s","i","o","n","a","l"," ","E","x","p","e","r","i","e","n","c","e","}","\n"," ","\\","r","e","s","u","m","e","S","u","b","H","e","a","d","i","n","g","L","i","s","t","S","t","a","r","t","\n","\n"," "," ","\\","r","e","s","u","m","e","S","u","b","h","e","a","d","i","n","g","{","A","c","m","e","}","{","2","0","2","1","}","\n","\\","r","e","s","u","m","e","I","t","e","m","L","i","s","t","S","t","a","r","t","\n","\\","r","e","s","u","m","e","I","t","e","m","{","B","u","i","l","t"," ","A","P","I","s","}","\n","\\","r","e","s","u","m","e","I","t","e","m","L","i","s","t","E","n","d","\n","\\","r","e","s","u","m","e","S","u","b","h","e","a","d","i","n","g","{","B","e","t","a","}","{","2","0","1","9","}","\n","\\","r","e","s","u","m","e","I","t","e","m","L","i","s","t","S","t","a","r","t","\n","\\","r","e","s","u","m","e","I","t","e","m","{","R","a","n"," ","o","p","s","}","\n","\\","r","e","s","u","m","e","I","t","e","m","L","i","s","t","E","n","d","\n","\\","r","e","s","u","m","e","S","u","b","H","e","a","d","i","n","g","L","i","s","t","E","n","d","\n">>,
       <<"\\","s","e","c","t","i","o","n","{","P","R","O","F","E","S","S","I","O","N","A","L"," ","E","X","P","E","R","I","E","N","C","E","}","\n","\\","r","e","s","u","m","e","S","u","b","H","e","a","d","i","n","g","L","i","s","t","S","t","a","r","t"," ","\\","r","e","s","u","m","e","S","u","b","h","e","a","d","i","n","g","{","A","}","{","3","}","\n","\\","r","e","s","u","m","e","I","t","e","m","L","i","s","t","S","t","a","r","t","\n","\\","r","e","s","u","m","e","I","t","e","m","L","i","s","t","E","n","d","\n","\\","r","e","s","u","m","e","S","u","b","h","e","a","d","i","n","g","{","B","}","{","2","}","\n","\\","r","e","s","u","m","e","I","t","e","m","L","i","s","t","S","t","a","r","t","\n","\\","r","e","s","u","m","e","I","t","e","m","L","i","s","t","E","n","d","\n","\\","r","e","s","u","m","e","S","u","b","h","e","a","d","i","n","g","{","C","}","{","1","}","\n","\\","r","e","s","u","m","e","I","t","e","m","L","i","s","t","S","t","a","r","t","\n","\\","r","e","s","u","m","e","I","t","e","m","L","i","s","t","E","n","d","\n","\\","r","e","s","u","m","e","S","u","b","H","e","a","d","i","n","g","L","i","s","t","E","n","d","\n">>,
       <<"\\","s","e","c","t","i","o","n","{","P","r","o","f","e","s","s","i","o","n","a","l"," ","E","x","p","e","r","i","e","n","c","e","}","\n","\\","r","e","s","u","m","e","S","u","b","H","e","a","d","i","n","g","L","i","s","t","S","t","a","r","t","\n","\\","r","e","s","u","m","e","S","u","b","h","e","a","d","i","n","g","{","A","c","m","e","}","{","2","0","2","1","}","\n","\\","r","e","s","u","m","e","S","u","b","H","e","a","d","i","n","g","L","i","s","t","E","n","d","\n">>,
       <<"\\","s","e","c","t","i","o","n","{","E","x","p","e","r","i","e","n","c","e","}","\n","\\","r","e","s","u","m","e","S","u","b","H","e","a","d","i","n","g","L","i","s","t","S","t","a","r","t","\n","\\","r","e","s","u","m","e","S","u","b","h","e","a","d","i","n","g","{","A","c","m","e","}","{","2","0","2","1","}","\n","\\","r","e","s","u","m","e","I","t","e","m","L","i","s","t","S","t","a","r","t","\n","\\","r","e","s","u","m","e","I","t","e","m","L","i","s","t","E","n","d","\n","\\","r","e","s","u","m","e","S","u","b","H","e","a","d","i","n","g","L","i","s","t","E","n","d","\n">> >>

SkillsSections ==
    << << >>,
       <<"\\","s","e","c","t","i","o","n","{","S","k","i","l","l","s","}","\n","\\","b","e","g","i","n","{","i","t","e","m","i","z","e","}","\n","\\","i","t","e","m"," ","P","y","t","h","o","n",","," ","A","W","S","\n","\\","e","n","d","{","i","t","e","m","i","z","e","}","\n">>,
       <<"\\","s","e","c","t","i","o","n","{","T","e","c","h","n","i","c","a","l"," ","S","k","i","l","l","s","}","\n","\\","b","e","g","i","n","{","i","t","e","m","i","z","e","}","\n","\\","i","t","e","m"," ","\\","t","e","x","t","b","f","{","L","a","n","g","u","a","g","e","s","}",":"," ","G","o","\n","\\","e","n","d","{","i","t","e","m","i","z","e","}","\n">>,
       <<"\\","s","e","c","t","i","o","n","{","T","e","c","h","n","i","c","a","l"," ","S","k","i","l","l","s","}","\n","\\","b","e","g","i","n","{","i","t","e","m","i","z","e","}","\n","\\","i","t","e","m"," ","G","o","\n","\\","e","n","d","{","i","t","e","m","i","z","e","}","\n","\\","s","e","c","t","i","o","n","{","S","K","I","L","L","S","}","\n","\\","b","e","g","i","n","{","i","t","e","m","i","z","e","}","\n","\\","i","t","e","m"," ","S","Q","L","\n","\\","e","n","d","{","i","t","e","m","i","z","e","}","\n">>,
       <<"\\","s","e","c","t","i","o","n","{","S","k","i","l","l","s","}","\n","\\","i","t","e","m"," ","P","y","t","h","o","n","\n">> >>

Document(s, e, k) ==
    DocumentHead \o SummarySections[s] \o ExperienceSections[e] \o SkillsSections[k]
        \o DocumentTail

\* every shape of one section, set among two shapes of the other two
Documents ==
    {Document(s, e, k) : s \in DOMAIN SummarySections, e \in {1}, k \in {1, 2}}
    \cup {Document(s, e, k) : s \in {1, 2}, e \in DOMAIN ExperienceSections, k \in {1, 2}}
    \cup {Document(s, e, k) : s \in {1, 2}, e \in {1, 3}, k \in DOMAIN SkillsSections}

\* replacement bullets: plain text, an escaped LaTeX character, a LaTeX command
NewBullets == { <<"S","h","i","p","p","e","d"," ","3"," ","m","o","d","e","l","s">>, <<"S","a","v","e","d"," ","2","0","\\","%"," ","c","o","s","t">>, <<"W","r","o","t","e"," ","\\","e","m","p","h","{","d","o","c","s","}">> }
NewBulletLists ==
    {bs \in UNION {[1..n -> NewBullets] : n \in 1..MaxNewBullets} :
        \A i, j \in DOMAIN bs : i < j => bs[i] # bs[j]}

NewExperiences ==
    { <<"\\","r","e","s","u","m","e","S","u","b","h","e","a","d","i","n","g","{","N","e","w","}","{","2","0","2","4","}","\n","\\","r","e","s","u","m","e","I","t","e","m","L","i","s","t","S","t","a","r","t","\n","\\","r","e","s","u","m","e","I","t","e","m","{","D","i","d"," ","\\","t","e","x","t","b","f","{","x","}","}","\n","\\","r","e","s","u","m","e","I","t","e","m","L","i","s","t","E","n","d">>,
      <<"T","B","D">> }

NewSkills ==
    { <<"\\","s","e","c","t","i","o","n","{","S","k","i","l","l","s","}","\n","\\","b","e","g","i","n","{","i","t","e","m","i","z","e","}","\n","\\","i","t","e","m"," ","R","u","s","t","\n","\\","e","n","d","{","i","t","e","m","i","z","e","}">>,
      <<"\\","s","e","c","t","i","o","n","{","T","e","c","h","n","i","c","a","l"," ","S","k","i","l","l","s","}","\n","\\","b","e","g","i","n","{","i","t","e","m","i","z","e","}","\n","\\","i","t","e","m"," ","\\","t","e","x","t","b","f","{","C","l","o","u","d","}",":"," ","A","W","S","\n","\\","e","n","d","{","i","t","e","m","i","z","e","}">>,
      <<"n","o","n","e">> }

LatexInit ==
    /\ latex_document \in Documents
    /\ latex_call = << >>
    /\ latex_return = << >>
    /\ ValidatorsIdle
    /\ AnalyzerIdle
    /\ SessionIdle

ExtractSummary ==
    /\ latex_call = << >>
    /\ latex_call' = << "extract_summary_section", << >> >>
    /\ latex_return' = extract_summary_section(latex_document)
    /\ UNCHANGED latex_document
    /\ UNCHANGED not_latex_vars

\* with new bullets, or with the bullets the extraction has just returned
ReplaceSummary ==
    /\ \E new_bullets \in
            IF latex_call = << >> THEN NewBulletLists
            ELSE IF latex_call[1] = "extract_summary_section" /\ latex_return # None
            THEN { latex_return[1] } ELSE {} :
          /\ latex_call' = << "replace_summary_section", new_bullets >>
          /\ latex_return' = replace_summary_section(latex_document, new_bullets)
    /\ UNCHANGED latex_document
    /\ UNCHANGED not_latex_vars

ExtractExperience ==
    /\ latex_call = << >>
    /\ latex_call' = << "extract_first_experience", << >> >>
    /\ latex_return' = extract_first_experience(latex_document)
    /\ UNCHANGED latex_document
    /\ UNCHANGED not_latex_vars

\* with a new block, or with the block the extraction has just returned
ReplaceExperience ==
    /\ \E new_experience \in
            IF latex_call = << >> THEN NewExperiences
            ELSE IF latex_call[1] = "extract_first_experience" /\ latex_return # None
            THEN { latex_return[1] } ELSE {} :
          /\ latex_call' = << "replace_first_experience", new_experience >>
          /\ latex_return' = replace_first_experience(latex_document, new_experience)
    /\ UNCHANGED latex_document
    /\ UNCHANGED not_latex_vars

ExtractSkills ==
    /\ latex_call = << >>
    /\ latex_call' = << "extract_skills_section", << >> >>
    /\ latex_return' = extract_skills_section(latex_document)
    /\ UNCHANGED latex_document
    /\ UNCHANGED not_latex_vars

\* with a new block, or with the block the extraction has just returned
ReplaceSkills ==
    /\ \E new_skills \in
            IF latex_call = << >> THEN NewSkills
            ELSE IF latex_call[1] = "extract_skills_section" /\ latex_return # None
            THEN { latex_return[1] } ELSE {} :
          /\ latex_call' = << "replace_skills_section", new_skills >>
          /\ latex_return' = replace_skills_section(latex_document, new_skills)
    /\ UNCHANGED latex_document
    /\ UNCHANGED not_latex_vars

LatexNext ==
    \/ ExtractSummary
    \/ ReplaceSummary
    \/ ExtractExperience
    \/ ReplaceExperience
    \/ ExtractSkills
    \/ ReplaceSkills

LatexSpec == LatexInit /\ [][LatexNext]_vars

(* ------------------------------------------------------------------ *)
(* The JD analyzer: calls of analyze on one JDAnalyzer instance.       *)
(* ------------------------------------------------------------------ *)

\* JD of src/test_validation.py, lines 6-8
TestJobDescription ==
    <<"R","1"," ","i","s"," ","t","h","r","i","l","l","e","d"," ","t","o"," ","i","n","t","r","o","d","u","c","e"," ","R","3","7"," ","c","o","m","m","i","t","t","e","d"," ","t","o"," ","t","r","a","n","s","f","o","r","m","i","n","g"," ","h","e","a","l","t","h","c","a","r","e"," ","f","i","n","a","n","c","i","a","l"," ","p","e","r","f","o","r","m","a","n","c","e"," ","s","o"," ","p","r","o","v","i","d","e","r","s"," ","c","a","n"," ","f","o","c","u","s"," ","o","n"," ","d","e","l","i","v","e","r","i","n","g"," ","e","x","c","e","p","t","i","o","n","a","l"," ","c","a","r","e","."," ","R","3","7"," ","i","s"," ","p","i","o","n","e","e","r","i","n","g"," ","a","n"," ","A","I","-","d","r","i","v","e","n"," ","a","p","p","r","o","a","c","h"," ","t","o"," ","r","e","v","o","l","u","t","i","o","n","i","z","e"," ","r","e","v","e","n","u","e"," ","c","y","c","l","e"," ","m","a","n","a","g","e","m","e","n","t","."," ","T","o","d","a","y"," ","w","e"," ","s","e","r","v","e"," ","9","5"," ","o","f"," ","t","h","e"," ","t","o","p"," ","1","0","0"," ","h","o","s","p","i","t","a","l"," ","s","y","s","t","e","m","s"," ","i","n"," ","t","h","e"," ","U","S"," ","a","n","d"," ","R","3","7"," ","w","i","l","l"," ","s","e","r","v","e"," ","a","s"," ","t","h","e"," ","A","I"," ","p","l","a","t","f","o","r","m"," ","l","a","y","e","r"," ","d","e","l","i","v","e","r","i","n","g"," ","r","e","s","u","l","t","s"," ","f","o","r"," ","o","u","r"," ","c","u","s","t","o","m","e","r","s","."," ","J","o","i","n","i","n","g"," ","R","3","7"," ","o","f","f","e","r","s"," ","t","h","e"," ","d","y","n","a","m","i","c"," ","e","n","e","r","g","y"," ","o","f"," ","a"," ","s","t","a","r","t","u","p",","," ","b","a","c","k","e","d"," ","b","y"," ","s","o","l","i","d"," ","r","e","v","e","n","u","e",","," ","c","l","e","a","r"," ","b","u","s","i","n","e","s","s"," ","v","a","l","u","e",","," ","a","n","d"," ","s","t","r","o","n","g"," ","i","n","v","e","s","t","m","e","n","t"," ","s","u","p","p","o","r","t","."," ","\n","\n","A","s"," ","a","n"," ","A","I"," ","E","n","g","i","n","e","e","r"," ","I","I"," ","i","n"," ","R","3","7",","," ","y","o","u"," ","w","i","l","l"," ","c","o","n","t","r","i","b","u","t","e"," ","t","o"," ","A","I","-","d","r","i","v","e","n"," ","s","o","l","u","t","i","o","n","s"," ","t","h","a","t"," ","s","u","p","p","o","r","t"," ","b","u","s","i","n","e","s","s"," ","o","u","t","c","o","m","e","s"," ","w","h","i","l","e"," ","d","e","v","e","l","o","p","i","n","g"," ","y","o","u","r"," ","t","e","c","h","n","i","c","a","l"," ","e","x","p","e","r","t","i","s","e","."," ","Y","o","u"," ","w","i","l","l"," ","w","o","r","k"," ","o","n"," ","A","I"," ","s","y","s","t","e","m","s"," ","f","o","r"," ","u","n","s","t","r","u","c","t","u","r","e","d"," ","d","a","t","a"," ","p","r","o","b","l","e","m","s"," ","i","n"," ","h","e","a","l","t","h","c","a","r","e",","," ","i","m","p","l","e","m","e","n","t"," ","m","o","d","e","l","s"," ","u","n","d","e","r"," ","g","u","i","d","a","n","c","e"," ","f","r","o","m"," ","s","e","n","i","o","r"," ","t","e","a","m"," ","m","e","m","b","e","r","s",","," ","a","n","d"," ","h","e","l","p"," ","b","u","i","l","d"," ","s","y","s","t","e","m","s"," ","t","h","a","t"," ","m","e","a","s","u","r","e"," ","A","I"," ","p","e","r","f","o","r","m","a","n","c","e",".">>

\* a later version of the same posting: the same first 230 characters, then
\* another title and an experience range
RevisedJobDescription ==
    SubSeq(TestJobDescription, 1, 230) \o
    <<" ","h","o","s","p","i","t","a","l","s","."," ","A","s"," ","a"," ","S","t","a","f","f"," ","E","n","g","i","n","e","e","r"," ","a","t"," ","A","c","m","e"," ","y","o","u"," ","w","i","l","l"," ","m","a","n","a","g","e"," ","t","e","a","m"," ","b","u","d","g","e","t","s","."," ","3","-","5"," ","y","e","a","r","s"," ","o","f"," ","e","x","p","e","r","i","e","n","c","e",".">>

JobDescriptions ==
    { TestJobDescription,
      RevisedJobDescription,
      <<"A","c","m","e"," ","s","e","e","k","s"," ","a"," ","S","e","n","i","o","r"," ","D","a","t","a"," ","E","n","g","i","n","e","e","r"," ","w","i","t","h"," ","5","+"," ","y","e","a","r","s"," ","o","f"," ","e","x","p","e","r","i","e","n","c","e",".">>,
      <<"W","e"," ","a","r","e"," ","h","i","r","i","n","g"," ","a","t"," ","I","n","i","t","e","c","h"," ","f","o","r"," ","G","l","o","b","e","x",":"," ","A","I"," ","E","n","g","i","n","e","e","r"," ","I","I",","," ","2"," ","t","o"," ","4"," ","y","e","a","r","s",","," ","s","e","n","i","o","r"," ","m","e","n","t","o","r","s",".">> }

\* postings for the fallback heuristic: a title with a level marker, then a
\* phrase about the years of experience
FallbackTitles ==
    { <<"S","o","f","t","w","a","r","e"," ","E","n","g","i","n","e","e","r"," ","I","I","I">>, <<"B","a","c","k","e","n","d"," ","D","e","v","e","l","o","p","e","r",","," ","L","e","v","e","l"," ","I","I","I">>, <<"D","a","t","a"," ","E","n","g","i","n","e","e","r"," ","I","I">>,
      <<"S","e","n","i","o","r"," ","E","n","g","i","n","e","e","r">>, <<"S","t","a","f","f"," ","E","n","g","i","n","e","e","r">>, <<"J","u","n","i","o","r"," ","D","e","v","e","l","o","p","e","r">>, <<"T","e","c","h"," ","L","e","a","d">>, <<"D","a","t","a"," ","A","n","a","l","y","s","t">> }
FallbackYearsPhrases ==
    { <<" ","w","i","t","h"," ","5"," ","y","e","a","r","s"," ","o","f"," ","e","x","p","e","r","i","e","n","c","e",".">>, <<" ","w","i","t","h"," ","5","+"," ","y","e","a","r","s"," ","o","f"," ","e","x","p","e","r","i","e","n","c","e",".">>,
      <<" ","w","i","t","h"," ","3","-","5"," ","y","e","a","r","s"," ","o","f"," ","e","x","p","e","r","i","e","n","c","e",".">>, <<" ","w","i","t","h"," ","1","0","+"," ","y","e","a","r","s"," ","i","n"," ","i","n","d","u","s","t","r","y",","," ","2"," ","y","e","a","r","s"," ","i","n"," ","c","l","o","u","d",".">>,
      <<" ","w","i","t","h"," ","1","2"," ","y","e","a","r","s"," ","o","f"," ","e","x","p","e","r","i","e","n","c","e",".">>, <<" ","w","i","t","h"," ","2"," ","t","o"," ","4"," ","y","e","a","r","s"," ","o","f"," ","e","x","p","e","r","i","e","n","c","e",".">>,
      <<" ","f","o","r"," ","a"," ","t","e","a","m"," ","o","f"," ","8",".">> }
FallbackDescriptions ==
    { <<"A","c","m","e"," ","s","e","e","k","s"," ","a"," ">> \o title \o phrase : title \in FallbackTitles, phrase \in FallbackYearsPhrases }

\* responses that the try block of analyze turns into metadata
FencedResponse ==
    <<"@","@","@","j","s","o","n","\n","{","\"","c","o","m","p","a","n","y","_","n","a","m","e","s","\"",":"," ","[","\"","R","1","\"",","," ","\"","R","3","7","\"","]",","," ","\"","r","o","l","e","_","l","e","v","e","l","\"",":"," ","\"","M","i","d","\"",","," ","\"","e","x","p","e","r","i","e","n","c","e","_","y","e","a","r","s","_","m","i","n","\"",":"," ","n","u","l","l",","," ","\"","e","x","p","e","r","i","e","n","c","e","_","y","e","a","r","s","_","m","a","x","\"",":"," ","n","u","l","l",","," ","\"","k","e","y","_","r","e","s","p","o","n","s","i","b","i","l","i","t","i","e","s","\"",":"," ","[","\"","I","m","p","l","e","m","e","n","t"," ","m","o","d","e","l","s","\"","]",","," ","\"","l","e","a","d","e","r","s","h","i","p","_","r","e","q","u","i","r","e","d","\"",":"," ","f","a","l","s","e","}","\n","@","@","@">>
BareResponse ==
    <<"{","\"","c","o","m","p","a","n","y","_","n","a","m","e","s","\"",":"," ","[","\"","I","n","i","t","e","c","h","\"","]",","," ","\"","r","o","l","e","_","l","e","v","e","l","\"",":"," ","\"","E","n","g","i","n","e","e","r"," ","I","I","I","\"",","," ","\"","e","x","p","e","r","i","e","n","c","e","_","y","e","a","r","s","_","m","i","n","\"",":"," ","3",","," ","\"","e","x","p","e","r","i","e","n","c","e","_","y","e","a","r","s","_","m","a","x","\"",":"," ","\"","5","\"",","," ","\"","l","e","a","d","e","r","s","h","i","p","_","r","e","q","u","i","r","e","d","\"",":"," ","t","r","u","e","}">>
ProseResponse == <<"H","e","r","e"," ","i","s"," ","t","h","e"," ","m","e","t","a","d","a","t","a",":"," ","{","\"","r","o","l","e","_","l","e","v","e","l","\"",":"," ","\"","W","i","z","a","r","d","\"","}"," ","H","o","p","e"," ","t","h","i","s"," ","h","e","l","p","s",".">>
ValidResponses == { FencedResponse, BareResponse, ProseResponse }

\* responses that are not JSON after _parse_json_response has cut them
UnparsableResponses ==
    { <<"I"," ","c","a","n","n","o","t"," ","a","n","a","l","y","z","e"," ","t","h","i","s"," ","j","o","b"," ","d","e","s","c","r","i","p","t","i","o","n",".">>,
      <<"{","\"","r","o","l","e","_","l","e","v","e","l","\"",":"," ","\"","S","e","n","i","o","r","\"",","," ","\"","c","o","m","p","a","n","y","_","n","a","m","e","s","\"",":"," ","[","\"","R","1","\"">>,
      <<"E","i","t","h","e","r"," ","{","\"","r","o","l","e","_","l","e","v","e","l","\"",":"," ","\"","M","i","d","\"","}"," ","o","r"," ","{","\"","r","o","l","e","_","l","e","v","e","l","\"",":"," ","\"","S","e","n","i","o","r","\"","}",".">> }

\* responses that are JSON but that JobDescriptionMetadata(**metadata_dict) rejects
InvalidFieldResponses ==
    { <<"{","\"","r","o","l","e","_","l","e","v","e","l","\"",":"," ","n","u","l","l","}">>,
      <<"{","\"","r","o","l","e","_","l","e","v","e","l","\"",":"," ","\"","S","e","n","i","o","r","\"",","," ","\"","e","x","p","e","r","i","e","n","c","e","_","y","e","a","r","s","_","m","i","n","\"",":"," ","\"","f","i","v","e","\"","}">>,
      <<"[","\"","S","e","n","i","o","r","\"","]">> }

ServiceOutcomes ==
    {ServiceError} \cup
    {ServiceText(t) : t \in ValidResponses \cup UnparsableResponses \cup InvalidFieldResponses}

\* _get_default_metadata and the try block depend on their argument alone;
\* they are evaluated once for each input of the model
DefaultMetadataOf ==
    [job_description \in JobDescriptions \cup FallbackDescriptions |->
        _get_default_metadata(job_description)]
TryAnalyzeOf == [response \in ServiceOutcomes |-> TryAnalyze(response)]

\* analyze without its except clause: an exception of the try block leaves analyze
analyze_raising(cache, job_description, use_cache, response) ==
    LET Tried(cache_key, tried) ==
            IF tried = Raises
            THEN {[returned |-> Raises, _cache |-> cache, response |-> response]}
            ELSE {[returned |-> tried,
                   _cache |-> IF use_cache THEN CacheSet(cache, cache_key, tried[2]) ELSE cache,
                   response |-> response]}
        Keyed(cache_key) ==
            IF use_cache /\ cache_key \in CacheKeys(cache)
            THEN {[returned |-> << "ok", CacheGet(cache, cache_key) >>, _cache |-> cache,
                   response |-> NotCalled]}
            ELSE Tried(cache_key, TryAnalyzeOf[response])
    IN  Keyed(_get_cache_key(job_description))

\* JDAnalyzer.analyze, lines 104-153, on an analyzer whose _cache is cache and
\* whose service answers with response if it is called: the set of outcomes,
\* each with what analyze returned (<< "ok", metadata >>, or Raises if an
\* exception left it), the _cache afterwards and what the service did
analyze(cache, job_description, use_cache, response) ==
    LET Tried(cache_key, tried) ==
            IF tried = Raises
            THEN {[returned |-> << "ok", m >>, _cache |-> cache, response |-> response]
                  : m \in DefaultMetadataOf[job_description]}
            ELSE {[returned |-> tried,
                   _cache |-> IF use_cache THEN CacheSet(cache, cache_key, tried[2]) ELSE cache,
                   response |-> response]}
        Keyed(cache_key) ==
            IF use_cache /\ cache_key \in CacheKeys(cache)
            THEN {[returned |-> << "ok", CacheGet(cache, cache_key) >>, _cache |-> cache,
                   response |-> NotCalled]}
            ELSE Tried(cache_key, TryAnalyzeOf[response])
    IN  Keyed(_get_cache_key(job_description))

\* JDAnalyzer.__init__: an empty _cache
AnalyzerInit ==
    /\ ValidatorsIdle
    /\ LatexIdle
    /\ AnalyzerIdle
    /\ SessionIdle

\* one call analyzer.analyze(job_description, use_cache)
Analyze ==
    \E job_description \in JobDescriptions, use_cache \in BOOLEAN, response \in ServiceOutcomes :
        \E outcome \in analyze(analyzer_cache, job_description, use_cache, response) :
            /\ analyzer_cache' = outcome._cache
            /\ analyzer_call' = << job_description, use_cache >>
            /\ analyzer_response' = outcome.response
            /\ analyzer_return' = outcome.returned
            /\ UNCHANGED not_analyzer_vars

AnalyzerNext == Analyze

AnalyzerSpec == AnalyzerInit /\ [][AnalyzerNext]_vars

\* one call analyzer.analyze(job_description, use_cache) while the service is
\* unavailable: client.messages.create raises, and the except clause of
\* analyze answers with _get_default_metadata
AnalyzeOffline ==
    \E job_description \in FallbackDescriptions, use_cache \in BOOLEAN :
        \E outcome \in analyze(analyzer_cache, job_description, use_cache, ServiceError) :
            /\ analyzer_cache' = outcome._cache
            /\ analyzer_call' = << job_description, use_cache >>
            /\ analyzer_response' = outcome.response
            /\ analyzer_return' = outcome.returned
            /\ UNCHANGED not_analyzer_vars

FallbackNext == AnalyzeOffline

FallbackSpec == AnalyzerInit /\ [][FallbackNext]_vars

\* responses for _parse_json_response: a JSON object, bare or in a code
\* fence, with prose before it and after it
ParseLeads ==
    { << >>, <<"H","e","r","e"," ","i","s"," ","t","h","e"," ","m","e","t","a","d","a","t","a",":"," ">>, <<"S","u","r","e","!","\n","\n">>, <<"T","h","e"," ","f","i","e","l","d","s"," ","(","i","n"," ","{","b","r","a","c","e","s","}",")"," ","a","r","e",":","\n">> }
ParseObjects ==
    { <<"{","\"","r","o","l","e","_","l","e","v","e","l","\"",":"," ","\"","S","e","n","i","o","r","\"","}">>,
      <<"{","\"","r","o","l","e","_","l","e","v","e","l","\"",":"," ","\"","M","i","d","\"",","," ","\"","c","o","m","p","a","n","y","_","n","a","m","e","s","\"",":"," ","[","\"","R","1","\"",","," ","\"","R","3","7","\"","]","}">>,
      <<"{","\"","r","o","l","e","_","l","e","v","e","l","\"",":"," ","\"","L","e","a","d","\"",","," ","\"","t","e","a","m","\"",":"," ","{","\"","s","i","z","e","\"",":"," ","4","}",","," ","\"","l","e","a","d","e","r","s","h","i","p","_","r","e","q","u","i","r","e","d","\"",":"," ","t","r","u","e","}">>,
      <<"{","\n"," "," ","\"","e","x","p","e","r","i","e","n","c","e","_","y","e","a","r","s","_","m","i","n","\"",":"," ","3",",","\n"," "," ","\"","e","x","p","e","r","i","e","n","c","e","_","y","e","a","r","s","_","m","a","x","\"",":"," ","n","u","l","l","\n","}">> }
ParseTrails ==
    { << >>, <<" ","H","o","p","e"," ","t","h","i","s"," ","h","e","l","p","s",".">>, <<"\n","N","o","t","e",":"," ","{","}"," ","w","o","u","l","d"," ","m","e","a","n"," ","n","o"," ","d","a","t","a",".">>, <<"\n">> }
ParseFences == { << << >>, << >> >>, << <<"@","@","@","j","s","o","n","\n">>, <<"\n","@","@","@">> >>, << <<"@","@","@","\n">>, <<"@","@","@">> >> }
ParseResponses ==
    { lead \o fence[1] \o object \o fence[2] \o trail :
        lead \in ParseLeads, fence \in ParseFences, object \in ParseObjects,
        trail \in ParseTrails }

\* _parse_json_response depends on its argument alone; analyze hands it the
\* stripped text of the response (lines 139-140)
ParsedResponseOf ==
    [response_text \in ParseResponses |-> _parse_json_response(strip(response_text))]

\* lines 139-140 of analyze on an answer of the service: the response text is
\* stripped and parsed; analyzer_return is what _parse_json_response returned,
\* << "ok", value >>, or Raises
ParseJsonResponse ==
    \E response_text \in ParseResponses :
        /\ analyzer_response' = ServiceText(response_text)
        /\ analyzer_return' = ParsedResponseOf[response_text]
        /\ UNCHANGED << analyzer_cache, analyzer_call >>
        /\ UNCHANGED not_analyzer_vars

ParseNext == ParseJsonResponse

ParseSpec == AnalyzerInit /\ [][ParseNext]_vars
\* ---------------------------------------------------------------------
\* app.py: the Streamlit session and its handlers
\* ---------------------------------------------------------------------

\* truth value of an Optional string or list: None and the empty value are false
Truthy(x) == x # None /\ x[1] # << >>

\* st.session_state after the initialisation of lines 30-67 (the fields the
\* handlers below read or write)
InitialSession ==
    [latex_content |-> None,
     job_description |-> << >>,
     keywords |-> << >>,
     old_summary |-> None,
     old_experience |-> None,
     old_skills |-> None,
     generated_summary |-> None,
     generated_experience |-> None,
     generated_skills |-> None,
     validation_result |-> None,
     experience_validation_result |-> None,
     skills_validation_result |-> None,
     updated_latex |-> None,
     jd_metadata |-> None]

\* the text refine_section keeps of the response, lines 812-819
RefinedContent(response_text) ==
    LET Unfenced(content) == strip(IF startswith(content, <<"l","a","t","e","x">>) THEN SliceFrom(content, 5) ELSE content)
        \* content.split("```")[1] of a content that starts with the fence
        Fenced(after) ==
            IF Find(after, Fence, 0) = -1 THEN after ELSE SubSeq(after, 1, Find(after, Fence, 0))
        Stripped(content) ==
            IF startswith(content, Fence) THEN Unfenced(Fenced(SliceFrom(content, 3))) ELSE content
    IN  Stripped(strip(response_text))


\* resumes to paste: with a Summary only, with Summary and Experience, and with
\* Summary and Skills
AppDocuments == { Document(2, 1, 1), Document(2, 2, 1), Document(2, 1, 2) }

\* the job description of test_validation.py and the keyword list used with it
AppJobDescription == TestJobDescription
AppKeywords == << <<"A","I">>, <<"h","e","a","l","t","h","c","a","r","e">>, <<"G","e","n","A","I">>, <<"P","y","T","o","r","c","h">> >>

\* what analyze returns for the job description when the service answers with
\* the fenced response
AppMetadata ==
    { outcome.returned[2] :
        outcome \in analyze({}, AppJobDescription, TRUE, ServiceText(FencedResponse)) }

\* texts the client generates or the user types: for the summary, the four
\* bullets of test_validation.py's BAD_SUMMARY shape and four clean bullets
GeneratedSummaries == { SummaryText(FALSE, 1, 2, 4, 0), SummaryText(FALSE, 6, 2, 4, 0) }
GeneratedExperiences == { ExperienceText(TRUE, 1, 3, 3) }
GeneratedSkills == { SkillsText(TRUE, 1, 3, 3) }
GeneratedTexts ==
    [summary |-> GeneratedSummaries, experience |-> GeneratedExperiences,
     skills |-> GeneratedSkills]
SectionNames == { "summary", "experience", "skills" }

\* what a call of the client does: it raises, or it returns one of texts
Answers(texts) == {Raises} \cup {<< "text", t >> : t \in texts}

\* responses to the refinement prompt: a fenced block
RefineResponses == { <<"@","@","@","l","a","t","e","x","\n","\\","i","t","e","m"," ","R","e","f","i","n","e","d"," ","w","i","t","h"," ","\\","t","e","x","t","b","f","{","A","W","S","}","\n","@","@","@","\n">> }
RefinedTexts == { RefinedContent(response_text) : response_text \in RefineResponses }

\* the three extractions of extract_all_sections depend on the document alone;
\* they are evaluated once for each document of the model
ExtractedOf ==
    [latex \in AppDocuments |->
        [old_summary |-> extract_summary_section(latex),
         old_experience |-> extract_first_experience(latex),
         old_skills |-> extract_skills_section(latex)]]

\* extract_all_sections
extract_all_sections(s) ==
    IF ~Truthy(s.latex_content) THEN s
    ELSE [s EXCEPT !.old_summary = ExtractedOf[s.latex_content[1]].old_summary,
                   !.old_experience = ExtractedOf[s.latex_content[1]].old_experience,
                   !.old_skills = ExtractedOf[s.latex_content[1]].old_skills]

\* the button "Load from Pasted Code", lines 118-124
load_pasted_code(s, latex_input) ==
    IF strip(latex_input) # << >>
    THEN extract_all_sections([s EXCEPT !.latex_content = Some(latex_input)])
    ELSE s

\* the job description text area, lines 147-150; extracted is what
\* extract_keywords(job_desc, top_n=8) returns
set_job_description(s, job_desc, extracted) ==
    IF job_desc = s.job_description THEN s
    ELSE IF job_desc # << >>
    THEN [s EXCEPT !.job_description = job_desc, !.keywords = extracted]
    ELSE [s EXCEPT !.job_description = job_desc]

\* can_generate, lines 185-189
can_generate(s) ==
    /\ s.latex_content # None
    /\ strip(s.job_description) # << >>
    /\ s.old_summary # None

\* SummaryValidationContext(...) of generate_all_sections, lines 271-276
ValidationContextOf(jd_metadata) ==
    [company_names |-> jd_metadata.company_names,
     role_level |-> jd_metadata.role_level,
     max_experience_years |-> jd_metadata.experience_years_max,
     leadership_allowed |-> jd_metadata.leadership_required]

\* the validators depend on their arguments alone; they are evaluated once for
\* each text the session can hold when generate_all_sections validates
SummaryValidationOf ==
    [generated \in GeneratedSummaries, wanted \in {AppKeywords}, jd_metadata \in AppMetadata |->
        Summary_validate(generated, wanted, Some(ValidationContextOf(jd_metadata)))]
ExperienceValidationOf ==
    [generated \in GeneratedExperiences \cup RefinedTexts, wanted \in {AppKeywords} |->
        Experience_validate(generated, wanted)]
SkillsValidationOf ==
    [generated \in GeneratedSkills \cup RefinedTexts, wanted \in {AppKeywords} |->
        Skills_validate(generated, wanted)]

\* generate_all_sections, where analyze returns jd_metadata and each generate_*
\* call of the client either raises (Raises) or returns << "text", t >>
generate_all_sections(s, jd_metadata, answers) ==
    LET ValidatedSkills(v) ==
            IF Truthy(v.generated_skills)
            THEN [v EXCEPT !.skills_validation_result =
                               Some(SkillsValidationOf[v.generated_skills[1], v.keywords])]
            ELSE v
        ValidatedExperience(v) ==
            ValidatedSkills(
                IF Truthy(v.generated_experience)
                THEN [v EXCEPT !.experience_validation_result =
                                   Some(ExperienceValidationOf[v.generated_experience[1], v.keywords])]
                ELSE v)
        Validate(v) ==
            ValidatedExperience(
                [v EXCEPT !.validation_result =
                              Some(SummaryValidationOf[v.generated_summary[1], v.keywords,
                                                      jd_metadata])])
        Skills(g) ==
            IF ~Truthy(g.old_skills) THEN Validate(g)
            ELSE IF answers.skills = Raises THEN g
            ELSE Validate([g EXCEPT !.generated_skills = Some(answers.skills[2])])
        Experience(g) ==
            IF ~Truthy(g.old_experience) THEN Skills(g)
            ELSE IF answers.experience = Raises THEN g
            ELSE Skills([g EXCEPT !.generated_experience = Some(answers.experience[2])])
        Summary(g) ==
            IF g.old_summary = None \/ answers.summary = Raises THEN g
            ELSE Experience([g EXCEPT !.generated_summary = Some(answers.summary[2])])
    IN  Summary([s EXCEPT !.jd_metadata = Some(jd_metadata)])

\* the session field that holds the generated text of a section
GeneratedField(section_name) ==
    CASE section_name = "summary" -> "generated_summary"
      [] section_name = "experience" -> "generated_experience"
      [] section_name = "skills" -> "generated_skills"

\* the text areas "Edit Summary", "Edit Experience" and "Edit Skills",
\* lines 471-473, 523-525 and 575-577
edit_section(s, section_name, edited) ==
    IF Some(edited) # s[GeneratedField(section_name)]
    THEN [s EXCEPT ![GeneratedField(section_name)] = Some(edited), !.updated_latex = None]
    ELSE s

\* the buttons "Regenerate" of the three tabs, lines 485-496, 536-548 and
\* 588-600; an exception of the client leaves the handler before it writes
regenerate_section(s, section_name, answer) ==
    IF answer = Raises THEN s
    ELSE [s EXCEPT ![GeneratedField(section_name)] = Some(answer[2]), !.updated_latex = None]

\* a refine_section that also takes the refined text as the section's old value
refine_section_writing_old(s, section_name, answer) ==
    IF answer = Raises THEN s
    ELSE [s EXCEPT ![GeneratedField(section_name)] = Some(RefinedContent(answer[2])),
                   !.old_summary = IF section_name = "summary"
                                   THEN Some(<< RefinedContent(answer[2]) >>) ELSE @,
                   !.old_experience = IF section_name = "experience"
                                      THEN Some(RefinedContent(answer[2])) ELSE @,
                   !.old_skills = IF section_name = "skills"
                                  THEN Some(RefinedContent(answer[2])) ELSE @,
                   !.updated_latex = None]

\* refine_section; an exception of the client is caught and nothing is written
refine_section(s, section_name, answer) ==
    IF answer = Raises THEN s
    ELSE [s EXCEPT ![GeneratedField(section_name)] = Some(RefinedContent(answer[2])),
                   !.updated_latex = None]

\* re.sub(r'^\\+item\s*', '', line) for a line that starts with \item
RemoveItemPrefix(line) ==
    LET slashes == RunEnd(line, 0, {"\\"})
    IN  IF slashes > 0 /\ MatchAt(line, slashes, <<"i","t","e","m">>)
        THEN SliceFrom(line, RunEnd(line, slashes + 4, WhitespaceSet))
        ELSE line

\* parse_item_bullets
parse_item_bullets(generated) ==
    LET Bullet(line) ==
            IF startswith(line, <<"\\","i","t","e","m">>) /\ RemoveItemPrefix(line) # << >>
            THEN << RemoveItemPrefix(line) >> ELSE << >>
        Lines(lines) == Flatten([n \in DOMAIN lines |-> Bullet(strip(lines[n]))])
    IN  IF generated = << >> THEN << >> ELSE Lines(split(strip(generated), "\n"))

\* apply_all_changes, which reads the document and the three generated values
\* of the session: the updated document, or Raises
apply_all_changes(latex, generated_summary, generated_experience, generated_skills) ==
    LET Skills(updated_latex) ==
            IF updated_latex # Raises /\ Truthy(generated_skills)
            THEN replace_skills_section(updated_latex, generated_skills[1])
            ELSE updated_latex
        Experience(updated_latex) ==
            Skills(IF updated_latex # Raises /\ Truthy(generated_experience)
                   THEN replace_first_experience(updated_latex, generated_experience[1])
                   ELSE updated_latex)
        Bullets(bullets) ==
            Experience(IF bullets # << >>
                       THEN replace_summary_section(latex[1], bullets)
                       ELSE latex[1])
    IN  IF Truthy(generated_summary) THEN Bullets(parse_item_bullets(generated_summary[1]))
        ELSE Experience(latex[1])

\* apply_all_changes, evaluated once for each document and generated values
UpdatedLatexOf ==
    [latex \in {Some(d) : d \in AppDocuments},
     generated_summary \in {None} \cup {Some(t) : t \in GeneratedSummaries \cup RefinedTexts},
     generated_experience \in {None} \cup {Some(t) : t \in GeneratedExperiences \cup RefinedTexts},
     generated_skills \in {None} \cup {Some(t) : t \in GeneratedSkills \cup RefinedTexts} |->
        apply_all_changes(latex, generated_summary, generated_experience, generated_skills)]

\* the scores display_results averages, lines 353-357: the summary's, then
\* those of the sections that have a result
SectionScores(s) ==
    << s.validation_result[1].score >>
    \o (IF s.experience_validation_result # None
        THEN << s.experience_validation_result[1].score >> ELSE << >>)
    \o (IF s.skills_validation_result # None
        THEN << s.skills_validation_result[1].score >> ELSE << >>)

RECURSIVE sum(_)
sum(scores) == IF scores = << >> THEN 0 ELSE Head(scores) + sum(Tail(scores))

\* an overall score that counts all three sections whatever results there are
OverallScore_of_three(scores) == << sum(scores), 3 >>

\* overall_score = sum(scores) / len(scores), kept as << numerator, denominator >>
OverallScore(scores) == << sum(scores), Len(scores) >>

\* display_results, as far as it computes and writes: what it shows
\* (<< "error" >> for "Validation failed", else << "scores", overall score >>)
\* and the session afterwards, whose updated_latex it fills (lines 623-624)
\* unless apply_all_changes raises
display_results(s) ==
    LET Filled(updated_latex) ==
            IF updated_latex = Raises THEN s ELSE [s EXCEPT !.updated_latex = Some(updated_latex)]
    IN  IF s.validation_result = None
        THEN [shown |-> << "error" >>, session |-> s]
        ELSE [shown |-> << "scores", OverallScore(SectionScores(s)) >>,
              session |-> IF s.updated_latex = None
                          THEN Filled(UpdatedLatexOf[s.latex_content, s.generated_summary,
                                                      s.generated_experience, s.generated_skills])
                          ELSE s]

(* ------------------------------------------------------------------ *)
(* The app: one browser session of app.py.                             *)
(* ------------------------------------------------------------------ *)

AppInit ==
    /\ ValidatorsIdle
    /\ LatexIdle
    /\ AnalyzerIdle
    /\ session = InitialSession
    /\ session_shown = << >>

\* "Load from Pasted Code"
LoadPastedCode ==
    \E latex_input \in AppDocuments :
        /\ session' = load_pasted_code(session, latex_input)
        /\ session_shown' = << >>
        /\ UNCHANGED not_session_vars

\* the user pastes the job description
SetJobDescription ==
    /\ session' = set_job_description(session, AppJobDescription, AppKeywords)
    /\ session_shown' = << >>
    /\ UNCHANGED not_session_vars

\* "Generate All Sections", "Regenerate All" and "Regenerate All Sections"
GenerateAllSections ==
    /\ can_generate(session) \/ Truthy(session.generated_summary)
    /\ \E jd_metadata \in AppMetadata,
          summary \in Answers(GeneratedSummaries),
          experience \in Answers(GeneratedExperiences),
          skills \in Answers(GeneratedSkills) :
            session' = generate_all_sections(
                           session, jd_metadata,
                           [summary |-> summary, experience |-> experience, skills |-> skills])
    /\ session_shown' = << >>
    /\ UNCHANGED not_session_vars

\* the editors are drawn by display_results after its validation check, each in
\* a tab that needs the section's generated text
EditorShown(section_name) ==
    /\ Truthy(session.generated_summary)
    /\ session.validation_result # None
    /\ Truthy(session[GeneratedField(section_name)])

EditSection ==
    \E section_name \in SectionNames :
        /\ EditorShown(section_name)
        /\ \E edited \in GeneratedTexts[section_name] :
                session' = edit_section(session, section_name, edited)
        /\ session_shown' = << >>
        /\ UNCHANGED not_session_vars

RegenerateSection ==
    \E section_name \in SectionNames :
        /\ EditorShown(section_name)
        /\ \E answer \in Answers(GeneratedTexts[section_name]) :
                session' = regenerate_section(session, section_name, answer)
        /\ session_shown' = << >>
        /\ UNCHANGED not_session_vars

RefineSection ==
    \E section_name \in SectionNames :
        /\ EditorShown(section_name)
        /\ \E answer \in Answers(RefineResponses) :
                session' = refine_section(session, section_name, answer)
        /\ session_shown' = << >>
        /\ UNCHANGED not_session_vars

\* main() calls display_results when there is a generated summary (line 205)
DisplayResults ==
    /\ Truthy(session.generated_summary)
    /\ session' = display_results(session).session
    /\ session_shown' = display_results(session).shown
    /\ UNCHANGED not_session_vars

AppNext ==
    \/ LoadPastedCode
    \/ SetJobDescription
    \/ GenerateAllSections
    \/ EditSection
    \/ RegenerateSection
    \/ RefineSection
    \/ DisplayResults

AppSpec == AppInit /\ [][AppNext]_vars
(* ------------------------------------------------------------------ *)
(* Properties.                                                         *)
(* ------------------------------------------------------------------ *)
Validated(s) == section = s /\ result # None
Errors == result[1].errors
Warnings == result[1].warnings
ParsedBullets == Summary_parse_bullets(input_text)

\* some reported error starts with prefix
HasError(prefix) == \E e \in DOMAIN Errors : startswith(Errors[e], prefix)
HasWarning(prefix) == \E w \in DOMAIN Warnings : startswith(Warnings[w], prefix)
BulletPrefix(i) == <<"B","u","l","l","e","t"," ">> \o str(i) \o <<":"," ">>
CompanyErrorFor(i, name) == HasError(BulletPrefix(i) \o <<"C","o","m","p","a","n","y"," ","n","a","m","e"," ","'">> \o name \o <<"'">>)
LeadershipErrorFor(i) == HasError(BulletPrefix(i) \o <<"L","e","a","d","e","r","s","h","i","p"," ","v","e","r","b"," ","'">>)
ExperienceErrorFor(i) == HasError(BulletPrefix(i) \o <<"E","x","p","e","r","i","e","n","c","e"," ","l","e","v","e","l"," ","'">>)
LengthErrorFor(i) ==
    \E e \in DOMAIN Errors :
        startswith(Errors[e], BulletPrefix(i)) /\ Contains(Errors[e], <<" ","c","h","a","r","s"," ","(","m","u","s","t"," ","b","e"," ">>)

\* w occurs in content, compared case-insensitively, with no letter, digit or
\* underscore next to it on either side
OccursAsWord(content, w) ==
    LET c == lower(content)
        v == lower(w)
    IN  \E i \in 0..(Len(c) - Len(v)) :
          /\ MatchAt(c, i, v)
          /\ (i = 0 \/ ~IsWordChar(c[i]))
          /\ (i + Len(v) = Len(c) \/ ~IsWordChar(c[i + Len(v) + 1]))
OccursOnlyInsideWord(content, w) ==
    Contains(lower(content), lower(w)) /\ ~OccursAsWord(content, w)
HasLeadershipVerb(content) ==
    \E v \in DOMAIN leadership_verbs : OccursAsWord(content, leadership_verbs[v])

\* C1: every score the three validators return is an integer from 0 to 100.
C1_ScoreInRange == result # None => result[1].score \in 0..100

\* the errors and warnings of a summary drive the unclamped score below zero
C1_Witness ==
    /\ Validated("summary")
    /\ Summary_raw_score(Errors, Warnings, result[1].keywords_matched, Len(input_keywords)) < 0
    /\ result[1].score = 0

\* C2: passed is true exactly when the errors list is empty, whatever the warnings.
C2_PassedIffNoErrors == result # None => (result[1].passed <=> Len(Errors) = 0)

\* a result that passed although it carries warnings
C2_Witness == result # None /\ result[1].passed /\ Len(Warnings) > 0

\* C3: a summary text that parses to L bullets gets the 'Must have exactly N
\* bullets' error exactly when L differs from the configured count N, L = 0 included.
C3_CountErrorIffMismatch ==
    Validated("summary") =>
        (HasError(<<"M","u","s","t"," ","h","a","v","e"," ","e","x","a","c","t","l","y"," ">> \o str(summary_bullet_count) \o <<" ","b","u","l","l","e","t","s">>)
            <=> Len(ParsedBullets) # summary_bullet_count)

\* a text without any bullet is reported
C3_Witness ==
    /\ Validated("summary")
    /\ Len(ParsedBullets) = 0
    /\ HasError(<<"M","u","s","t"," ","h","a","v","e"," ","e","x","a","c","t","l","y"," ","4"," ","b","u","l","l","e","t","s"," ","(","f","o","u","n","d"," ","0",")">>)

\* C4: a summary bullet of C characters gets a length error exactly when
\* C < char_min or C > char_max; 105 and 109 pass, 104 and 110 fail.
C4_LengthErrorIffOutOfRange ==
    Validated("summary") =>
        LET bullets == ParsedBullets
        IN  \A i \in 1..Len(bullets) :
                LengthErrorFor(i) <=>
                    (Len(bullets[i]) < summary_char_min \/ Len(bullets[i]) > summary_char_max)

\* one text with a bullet of exactly 105 and a bullet of exactly 109 characters,
\* neither reported
C4_Witness ==
    /\ Validated("summary")
    /\ LET bullets == ParsedBullets
       IN  \E i, j \in 1..Len(bullets) :
              /\ Len(bullets[i]) = 105 /\ ~LengthErrorFor(i)
              /\ Len(bullets[j]) = 109 /\ ~LengthErrorFor(j)

\* a text with a bullet of 104 and a bullet of 110 characters, both reported
C4_OutOfRangeReached ==
    /\ Validated("summary")
    /\ LET bullets == ParsedBullets
       IN  \E i, j \in 1..Len(bullets) :
              /\ Len(bullets[i]) = 104 /\ LengthErrorFor(i)
              /\ Len(bullets[j]) = 110 /\ LengthErrorFor(j)

\* C5: with a context, every configured company name that occurs in a bullet as a
\* case-insensitive whole word is reported for that bullet by an error naming it,
\* and a name that occurs only inside a longer word is not reported.
C5_EveryCompanyNameReported ==
    (Validated("summary") /\ input_context # None) =>
        LET bullets == ParsedBullets
        IN  \A i \in 1..Len(bullets) :
                \A n \in DOMAIN input_context[1].company_names :
                    LET name == input_context[1].company_names[n]
                    IN  /\ OccursAsWord(bullets[i], name) => CompanyErrorFor(i, name)
                        /\ OccursOnlyInsideWord(bullets[i], name) => ~CompanyErrorFor(i, name)

\* C6: a bullet that holds a leadership verb as a whole word gets a leadership
\* error when leadership_allowed is false and none when it is true.
C6_LeadershipVerbReported ==
    (Validated("summary") /\ input_context # None) =>
        LET bullets == ParsedBullets
        IN  \A i \in 1..Len(bullets) :
                HasLeadershipVerb(bullets[i]) =>
                    (LeadershipErrorFor(i) <=> ~input_context[1].leadership_allowed)

\* C7: a bullet that holds a configured company name, a leadership verb (leadership
\* not allowed) and an experience figure above the maximum gets all three errors.
C7_EveryViolationReported ==
    (Validated("summary") /\ input_context # None) =>
        \A i \in 1..Len(ParsedBullets) :
            LET b == ParsedBullets[i]
                years == YearsSearch(lower(b))
            IN  ( /\ \E n \in DOMAIN input_context[1].company_names :
                        OccursAsWord(b, input_context[1].company_names[n])
                  /\ ~input_context[1].leadership_allowed
                  /\ HasLeadershipVerb(b)
                  /\ input_context[1].max_experience_years # None
                  /\ years # None
                  /\ int(years[1]) > input_context[1].max_experience_years[1] )
                => ( /\ \E n \in DOMAIN input_context[1].company_names :
                           CompanyErrorFor(i, input_context[1].company_names[n])
                     /\ LeadershipErrorFor(i)
                     /\ ExperienceErrorFor(i) )

\* the errors raised by the semantic rules, told by the text of their message
IsSemanticError(e) ==
    \/ Contains(e, <<":"," ","C","o","m","p","a","n","y"," ","n","a","m","e"," ","'">>)
    \/ Contains(e, <<":"," ","L","e","a","d","e","r","s","h","i","p"," ","v","e","r","b"," ","'">>)
    \/ Contains(e, <<":"," ","E","x","p","e","r","i","e","n","c","e"," ","l","e","v","e","l"," ","'">>)
SemanticCount == Cardinality({e \in DOMAIN Errors : IsSemanticError(Errors[e])})
OtherCount == Len(Errors) - SemanticCount

\* a / b rounded to the nearest integer, halves to the even neighbour (Python's round)
Rounded(a, b) ==
    LET q == a \div b
        r == a % b
    IN  IF 2 * r > b \/ (2 * r = b /\ q % 2 = 1) THEN q + 1 ELSE q
SummaryScoreWith(bonus) ==
    max(0, min(100, 100 - 20 * SemanticCount - 15 * OtherCount - 5 * Len(Warnings) + bonus))

\* C8 as stated: the summary score is clamp(100 - 20*S - 15*F - 5*W + bonus, 0, 100)
\* with the bonus the rounded value of 10 * keywords_matched / max(total_keywords, 1).
C8_ScoreWithRoundedBonus ==
    Validated("summary") =>
        result[1].score =
            SummaryScoreWith(Rounded(10 * result[1].keywords_matched, max(Len(input_keywords), 1)))

\* C8 amended: the same formula with the bonus truncated (rounded down) instead.
C8_ScoreWithTruncatedBonus ==
    Validated("summary") =>
        result[1].score =
            SummaryScoreWith((10 * result[1].keywords_matched) \div max(Len(input_keywords), 1))

\* a score inside (0, 100) with semantic errors, other errors and warnings, on a
\* match ratio whose rounded and truncated bonus differ
C8_Witness ==
    /\ Validated("summary")
    /\ SemanticCount > 0 /\ OtherCount > 0 /\ Len(Warnings) > 0
    /\ result[1].score > 0 /\ result[1].score < 100
    /\ Rounded(10 * result[1].keywords_matched, max(Len(input_keywords), 1))
          # (10 * result[1].keywords_matched) \div max(Len(input_keywords), 1)

ExperienceBulletCount == Len(Experience_parse_bullets(input_text))
ExperienceCountError == HasError(<<"N","e","e","d"," ","a","t"," ","l","e","a","s","t"," ","4"," ","b","u","l","l","e","t","s">>)
ExperienceCountWarning == HasWarning(<<"C","o","n","s","i","d","e","r"," ","r","e","d","u","c","i","n","g"," ","t","o"," ","6"," ","b","u","l","l","e","t","s">>)

\* C9: an experience block of n bullets gets the count error exactly when n < 4,
\* and the count warning without the count error exactly when n > 6.
C9_ExperienceCount ==
    Validated("experience") =>
        /\ ExperienceCountError <=> ExperienceBulletCount < 4
        /\ (ExperienceCountWarning /\ ~ExperienceCountError) <=> ExperienceBulletCount > 6

\* seven bullets: warned, not failed on the count
C9_Witness ==
    /\ Validated("experience")
    /\ ExperienceBulletCount = 7
    /\ HasWarning(<<"C","o","n","s","i","d","e","r"," ","r","e","d","u","c","i","n","g"," ","t","o"," ","6"," ","b","u","l","l","e","t","s"," ","(","f","o","u","n","d"," ","7",")">>)
    /\ ~ExperienceCountError

ParsedSkills == Skills_parse_skills(input_text)
\* the entries that repeat an earlier entry, compared case-insensitively
RepeatedSkills(skills) ==
    LET lowered == [i \in DOMAIN skills |-> lower(skills[i])]
    IN  {j \in DOMAIN skills : \E i \in 1..(j - 1) : lowered[i] = lowered[j]}

\* C10: when two parsed skill entries are equal case-insensitively, a duplicate
\* warning lists every repeated entry, no error mentions it, and passed depends on
\* the keyword and format checks alone.
C10_DuplicateWarning ==
    Validated("skills") =>
        LET skills == ParsedSkills
            repeated == RepeatedSkills(skills)
        IN  repeated # {} =>
            /\ \E w \in DOMAIN Warnings :
                  /\ startswith(Warnings[w], <<"D","u","p","l","i","c","a","t","e"," ","s","k","i","l","l","s"," ","f","o","u","n","d",":"," ">>)
                  /\ \A j \in repeated : Contains(Warnings[w], skills[j])
            /\ \A e \in DOMAIN Errors : ~Contains(Errors[e], <<"D","u","p","l","i","c","a","t","e">>)
            /\ result[1].passed <=>
                  ( /\ count_keyword_matches(join(<< " " >>, skills), input_keywords) >= 3
                    /\ Contains(input_text, <<"\\","i","t","e","m">>)
                    /\ (Contains(input_text, <<"\\","s","e","c","t","i","o","n">>) \/ Contains(input_text, <<"\\","b","e","g","i","n","{","i","t","e","m","i","z","e","}">>)) )

\* 'Python' and 'python' are both entries, the warning lists 'python', and the
\* text passed
C10_Witness ==
    /\ Validated("skills")
    /\ result[1].passed
    /\ \E w \in DOMAIN Warnings :
          startswith(Warnings[w], <<"D","u","p","l","i","c","a","t","e"," ","s","k","i","l","l","s"," ","f","o","u","n","d",":"," ","p","y","t","h","o","n">>)
    /\ LET skills == ParsedSkills
       IN  \E i, j \in DOMAIN skills :
              i < j /\ skills[i] = <<"P","y","t","h","o","n">> /\ skills[j] = <<"p","y","t","h","o","n">>


\* the semantic errors reported for bullet i
SemanticErrorsFor(i) ==
    {e \in DOMAIN Errors : startswith(Errors[e], BulletPrefix(i)) /\ IsSemanticError(Errors[e])}

\* the bullet states more years of experience than max_years
ExceedsYears(content, max_years) ==
    LET Above(years) == years # None /\ int(years[1]) > max_years
    IN  Above(YearsSearch(lower(content)))

\* the first rule a bullet violates, in the order company name, leadership verb,
\* experience ceiling
FirstViolatedRule(content, c) ==
    IF \E n \in DOMAIN c.company_names : OccursAsWord(content, c.company_names[n])
    THEN "company"
    ELSE IF ~c.leadership_allowed /\ HasLeadershipVerb(content) THEN "leadership"
    ELSE IF c.max_experience_years # None /\ ExceedsYears(content, c.max_experience_years[1])
    THEN "experience"
    ELSE "none"

C27_FewKeywordsNeverPass ==
    Validated("summary") =>
        /\ result[1].keywords_matched <= Len(input_keywords)
        /\ Len(input_keywords) < min_keywords_required =>
              /\ ~result[1].passed
              /\ HasError(KeywordError(result[1].keywords_matched, Len(input_keywords),
                                       min_keywords_required))

\* every one of the four supplied keywords is found in a summary of four
\* bullets, and the text fails with the shortfall among its errors
C27_Witness ==
    /\ Validated("summary")
    /\ Len(input_keywords) = 4
    /\ Len(ParsedBullets) = summary_bullet_count
    /\ result[1].keywords_matched = 4
    /\ ~result[1].passed
    /\ HasError(<<"O","n","l","y"," ","4","/","4"," ","k","e","y","w","o","r","d","s"," ","f","o","u","n","d"," ","(","n","e","e","d"," ","5",")">>)

(* ------------------------------------------------------------------ *)
(* Section engine properties (LatexSpec).                              *)
(* ------------------------------------------------------------------ *)
LatexCalled(name) == latex_call # << >> /\ latex_call[1] = name

\* the text of a document before and after the body of its summary list,
\* the body being what lies between \begin{itemize} and \end{itemize}
OutsideSummaryBody(doc) ==
    LET Parts(m) == IF m = << >> THEN << doc, << >> >>
                    ELSE << SubSeq(doc, 1, m[2]), SliceFrom(doc, m[3]) >>
    IN  Parts(SummaryExtractMatch(lower(doc), 0))

\* the replacement was called with exactly the bullets extraction returns
RoundTripCall ==
    /\ LatexCalled("replace_summary_section")
    /\ LET Same(extracted) == extracted # None /\ latex_call[2] = extracted[1]
       IN  Same(extract_summary_section(latex_document))

\* C11: replacing the summary by the bullets extracted from the same document
\* returns a document with the same text outside the list body and the same
\* bullets, in the same order, inside it.
C11_ExtractReplaceRoundTrip ==
    RoundTripCall =>
        /\ latex_return # Raises
        /\ OutsideSummaryBody(latex_return) = OutsideSummaryBody(latex_document)
        /\ extract_summary_section(latex_return) = Some(latex_call[2])

\* a round trip that does keep the content: only the layout of the items differs
C11_RoundTripKept ==
    /\ RoundTripCall
    /\ latex_return # Raises
    /\ latex_return # latex_document
    /\ extract_summary_section(latex_return) = Some(latex_call[2])

\* the extraction that goes with the replacement that was called
ExtractedForCall ==
    IF LatexCalled("replace_summary_section") THEN extract_summary_section(latex_document)
    ELSE IF LatexCalled("replace_first_experience") THEN extract_first_experience(latex_document)
    ELSE extract_skills_section(latex_document)

ReplaceCalled ==
    \/ LatexCalled("replace_summary_section")
    \/ LatexCalled("replace_first_experience")
    \/ LatexCalled("replace_skills_section")

\* C12: when the extraction of a section finds nothing, the replacement of that
\* section returns the document unchanged, whatever the new content.
C12_NotFoundLeavesUnchanged ==
    (ReplaceCalled /\ ExtractedForCall = None) => latex_return = latex_document

\* what does hold: for Experience and Skills, not found means unchanged
C12_NotFoundUnchangedExperienceSkills ==
    ((LatexCalled("replace_first_experience") \/ LatexCalled("replace_skills_section"))
        /\ ExtractedForCall = None) => latex_return = latex_document

\* the Professional Experience section of a document, found without the
\* pattern of the parser: << end of the list-start marker, start of the first
\* entry, end of the first entry's \resumeItemListEnd, number of entries >>,
\* or << >> when the heading, the marker or a closed entry is missing
ExperienceEntries(doc) ==
    LET list_start == <<"\\","r","e","s","u","m","e","s","u","b","h","e","a","d","i","n","g","l","i","s","t","s","t","a","r","t">>
        list_end == <<"\\","r","e","s","u","m","e","i","t","e","m","l","i","s","t","e","n","d">>
        entry == <<"\\","r","e","s","u","m","e","s","u","b","h","e","a","d","i","n","g","{">>
        Counted(t, o) ==
            IF o[Len(o)] = -1 THEN << >>
            ELSE << o[2] + Len(list_start), o[3], o[4] + Len(list_end),
                    Cardinality({k \in o[2]..Len(t) : MatchAt(t, k, entry)}) >>
        In(t) == Counted(t, FindEach(t, 0, << <<"\\","s","e","c","t","i","o","n","{","p","r","o","f","e","s","s","i","o","n","a","l"," ","e","x","p","e","r","i","e","n","c","e","}">>,
                                                list_start, entry, list_end >>))
    IN  In(lower(doc))

\* C13: replace_first_experience changes the first entry and nothing else: the
\* text through the list-start marker and the text after the first entry's
\* \resumeItemListEnd, later entries included, are those of the document.
C13_OnlyFirstEntryReplaced ==
    LatexCalled("replace_first_experience") =>
        LET Framed(e) ==
                e # << >> =>
                    /\ SubSeq(latex_return, 1, e[1]) = SubSeq(latex_document, 1, e[1])
                    /\ latex_return = SubSeq(latex_document, 1, e[2]) \o latex_call[2]
                                         \o SliceFrom(latex_document, e[3])
        IN  Framed(ExperienceEntries(latex_document))

\* a section of several entries whose first entry was replaced
C13_Witness ==
    /\ LatexCalled("replace_first_experience")
    /\ LET Several(e) == e # << >> /\ e[4] >= 2 IN Several(ExperienceEntries(latex_document))
    /\ latex_return # latex_document

(* ------------------------------------------------------------------ *)
(* Claims about the JD analyzer                                        *)
(* ------------------------------------------------------------------ *)

\* the last call of analyze returned metadata
Returned == Len(analyzer_return) = 2
ReturnedMetadata == analyzer_return[2]

\* the service was called in the last call of analyze and answered with t
Answered(t) == analyzer_response = ServiceText(t)

\* the primary path of the last call of analyze failed: the service raised,
\* or answered with one of the responses that cannot become metadata
PrimaryFailed ==
    \/ analyzer_response = ServiceError
    \/ \E t \in UnparsableResponses \cup InvalidFieldResponses : Answered(t)

\* role_level strings for the field validator: the five values, titles and
\* numerals in several spellings, and words no rule knows
RoleLevelStrings ==
    { <<"J","u","n","i","o","r">>, <<"M","i","d">>, <<"S","e","n","i","o","r">>, <<"S","t","a","f","f">>, <<"L","e","a","d">>, <<"j","u","n","i","o","r">>, <<"m","i","d">>, <<"I">>, <<"i">>, <<"I","I">>, <<"I","I","I">>,
      <<"I","V">>, <<"S","r","."," ","E","n","g","i","n","e","e","r">>, <<"E","n","t","r","y","-","l","e","v","e","l">>, <<"E","n","g","i","n","e","e","r"," ","I","I","I">>, <<"E","n","g","i","n","e","e","r"," ","I","I">>, <<"P","r","i","n","c","i","p","a","l">>,
      <<"T","e","c","h"," ","L","e","a","d">>, <<"E","n","g","i","n","e","e","r","i","n","g"," ","M","a","n","a","g","e","r">>, <<"W","i","z","a","r","d">>, << >>, <<"A","s","s","o","c","i","a","t","e">>, <<"I","n","t","e","r","m","e","d","i","a","t","e">>,
      <<"D","i","r","e","c","t","o","r">> }

\* the words of the normalization rules
RuleWords ==
    { <<"j","u","n","i","o","r">>, <<"e","n","t","r","y">>, <<"s","e","n","i","o","r">>, <<"s","r">>, <<"i","i","i">>, <<"s","t","a","f","f">>, <<"p","r","i","n","c","i","p","a","l">>, <<"i","v">>, <<"l","e","a","d">>, <<"m","a","n","a","g","e","r">> }
MatchesNoRule(v) ==
    /\ v \notin Range(valid_levels)
    /\ lower(v) # <<"i">>
    /\ \A w \in RuleWords : ~Contains(lower(v), w)

\* the role_level string each valid response carries
SentRoleLevels ==
    { << FencedResponse, <<"M","i","d">> >>, << BareResponse, <<"E","n","g","i","n","e","e","r"," ","I","I","I">> >>,
      << ProseResponse, <<"W","i","z","a","r","d">> >> }

\* the field validator maps every string of RoleLevelStrings into the five
\* values, and to Mid when no rule matches it
RoleLevelStringsNormalized ==
    \A v \in RoleLevelStrings :
        /\ validate_role_level(v) \in Range(valid_levels)
        /\ MatchesNoRule(v) => validate_role_level(v) = <<"M","i","d">>

\* C14: every metadata object, returned by analyze from the service's JSON or
\* from the fallback, or stored in the cache, has a role_level among Junior,
\* Mid, Senior, Staff, Lead; a role_level string that matches no normalization
\* rule becomes Mid.
C14_RoleLevelInEnum ==
    /\ Returned => ReturnedMetadata.role_level \in Range(valid_levels)
    /\ \A item \in analyzer_cache : item[2].role_level \in Range(valid_levels)
    /\ \A sent \in SentRoleLevels :
            Answered(sent[1]) /\ MatchesNoRule(sent[2]) /\ Returned
                => ReturnedMetadata.role_level = <<"M","i","d">>
    /\ RoleLevelStringsNormalized

\* the service sent the role_level "Wizard", which no rule matches, and analyze
\* returned metadata of level Mid
C14_Witness ==
    /\ Answered(ProseResponse)
    /\ MatchesNoRule(<<"W","i","z","a","r","d">>)
    /\ Returned
    /\ ReturnedMetadata.role_level = <<"M","i","d">>

SeparatorSet == WhitespaceSet \cup DigitSet \cup {"-", "+", "t", "o"}
HasYearsPhrase(s) ==
    \E j \in 1..(Len(s) - 4) :
        /\ MatchAt(s, j, <<"y","e","a","r">>)
        /\ \E i \in 1..j : IsDigit(s[i]) /\ \A k \in (i + 1)..j : s[k] \in SeparatorSet

\* C16: when analyze falls back, a job description containing 'AI Engineer II'
\* gets role_level Mid, also when 'senior' occurs in it, and a job description
\* without a phrase of a number and "years" gets neither experience_years_min
\* nor experience_years_max.
C16_FallbackRoleAndYears ==
    analyzer_call # << >> /\ PrimaryFailed /\ Returned =>
        /\ Contains(analyzer_call[1], <<"A","I"," ","E","n","g","i","n","e","e","r"," ","I","I">>)
                => ReturnedMetadata.role_level = <<"M","i","d">>
        /\ ~HasYearsPhrase(lower(analyzer_call[1]))
                => /\ ReturnedMetadata.experience_years_min = None
                   /\ ReturnedMetadata.experience_years_max = None

\* the fallback ran on the job description of test_validation.py, which has
\* 'AI Engineer II', the word 'senior' and no years phrase
C16_Witness ==
    /\ analyzer_call # << >>
    /\ analyzer_call[1] = TestJobDescription
    /\ analyzer_response = ServiceError
    /\ Contains(TestJobDescription, <<"A","I"," ","E","n","g","i","n","e","e","r"," ","I","I">>)
    /\ Contains(TestJobDescription, <<"s","e","n","i","o","r">>)
    /\ ~HasYearsPhrase(lower(TestJobDescription))
    /\ Returned
    /\ ReturnedMetadata.role_level = <<"M","i","d">>
    /\ ReturnedMetadata.experience_years_min = None
    /\ ReturnedMetadata.experience_years_max = None

\* the last call of analyze had caching enabled
CachingCall(call) == call # << >> /\ call[2]

\* C18: with caching enabled, an analyze that follows an analyze of a job
\* description with the same trimmed first 200 characters returns the same
\* metadata without calling the service, and no stored entry is replaced or
\* removed.
C18_CreatedOncePerDescription ==
    [][ /\ \A item \in analyzer_cache : item \in analyzer_cache'
        /\ ( /\ CachingCall(analyzer_call)
             /\ CachingCall(analyzer_call')
             /\ _get_cache_key(analyzer_call'[1]) = _get_cache_key(analyzer_call[1]) )
           => /\ analyzer_return' = analyzer_return
              /\ analyzer_response' = NotCalled ]_vars

\* what the code does keep: a stored entry is never replaced or removed, it is
\* what analyze returned when it was stored, and an analyze with caching
\* enabled whose key is stored returns the entry without calling the service
C18_StoredEntriesKept ==
    [][ /\ \A item \in analyzer_cache : item \in analyzer_cache'
        /\ \A item \in analyzer_cache' \ analyzer_cache :
                /\ item[1] = _get_cache_key(analyzer_call'[1])
                /\ analyzer_return' = << "ok", item[2] >>
        /\ ( /\ CachingCall(analyzer_call')
             /\ _get_cache_key(analyzer_call'[1]) \in CacheKeys(analyzer_cache) )
           => /\ analyzer_return' = << "ok", CacheGet(analyzer_cache, _get_cache_key(analyzer_call'[1])) >>
              /\ analyzer_response' = NotCalled ]_vars

(* ------------------------------------------------------------------ *)
(* Claims about the fallback heuristic                                 *)
(* ------------------------------------------------------------------ *)

\* the words that mark a Junior, Staff or Lead posting
OtherLevelWords ==
    { <<"j","u","n","i","o","r">>, <<"e","n","t","r","y">>, <<"e","n","g","i","n","e","e","r"," ","i","v">>, <<"s","t","a","f","f">>, <<"p","r","i","n","c","i","p","a","l">>, <<"l","e","a","d">>, <<"m","a","n","a","g","e","r">> }

\* the level marker of jd is 'Engineer III' or 'Level III', and jd has no
\* Junior, Staff or Lead marker
LevelThreeOnly(jd) ==
    /\ Contains(lower(jd), <<"e","n","g","i","n","e","e","r"," ","i","i","i">>) \/ Contains(lower(jd), <<"l","e","v","e","l"," ","i","i","i">>)
    /\ \A w \in OtherLevelWords : ~Contains(lower(jd), w)

\* C21: when analyze falls back, a job description whose level marker is
\* 'Engineer III' or 'Level III' and that has no Junior, Staff or Lead marker
\* gets role_level Senior.
C21_LevelThreeIsSenior ==
    analyzer_call # << >> /\ PrimaryFailed /\ Returned /\ LevelThreeOnly(analyzer_call[1])
        => ReturnedMetadata.role_level = <<"S","e","n","i","o","r">>

\* the phrase 'N years', 'N+ years' or 'N-M years' that starts with the number
\* at offset i of s: << N, M >> as digits (M empty when absent), or << >>
YearsPhraseAt(s, i) ==
    LET Range_(a, b) ==
            IF b > a + 1 /\ MatchAt(s, b, <<" ","y","e","a","r">>)
            THEN << SubSeq(s, i + 1, a), SubSeq(s, a + 2, b) >> ELSE << >>
        Number(a) ==
            IF MatchAt(s, a, <<" ","y","e","a","r">>) \/ MatchAt(s, a, <<"+"," ","y","e","a","r">>)
            THEN << SubSeq(s, i + 1, a), << >> >>
            ELSE IF MatchAt(s, a, <<"-">>) THEN Range_(a, DigitRunEnd(s, a + 1)) ELSE << >>
    IN  Number(DigitRunEnd(s, i))

\* the offsets of s where a number starts
NumberStarts(s) ==
    {i \in 0..(Len(s) - 1) : IsDigit(s[i + 1]) /\ (i = 0 \/ ~IsDigit(s[i]))}

\* the years phrase the first number of s starts, or << >>
FirstYearsPhrase(s) ==
    IF NumberStarts(s) = {} THEN << >> ELSE YearsPhraseAt(s, First(NumberStarts(s)))

\* C22: when analyze falls back on a job description whose first number starts
\* a phrase 'N years', 'N+ years' or 'N-M years', experience_years_min is N and
\* experience_years_max is M, absent for the first two forms.
C22_YearsFromFirstPhrase ==
    LET Checked(phrase) ==
            phrase # << >> =>
                /\ ReturnedMetadata.experience_years_min = Some(int(phrase[1]))
                /\ ReturnedMetadata.experience_years_max =
                        IF phrase[2] = << >> THEN None ELSE Some(int(phrase[2]))
    IN  analyzer_call # << >> /\ PrimaryFailed /\ Returned
            => Checked(FirstYearsPhrase(lower(analyzer_call[1])))

\* the offset behind the brace that closes the brace opened before offset k
\* of s at the given depth, or -1 when it is never closed
RECURSIVE BalancedEnd(_, _, _)
BalancedEnd(s, k, depth) ==
    IF k >= Len(s) THEN -1
    ELSE IF s[k + 1] = "}" THEN (IF depth = 1 THEN k + 1 ELSE BalancedEnd(s, k + 1, depth - 1))
    ELSE IF s[k + 1] = "{" THEN BalancedEnd(s, k + 1, depth + 1)
    ELSE BalancedEnd(s, k + 1, depth)

\* the first balanced {...} span of s, or << >>
FirstBalancedObject(s) ==
    LET Span(start, end) == IF end = -1 THEN << >> ELSE SubSeq(s, start + 1, end)
        Opened(start) == IF start = -1 THEN << >> ELSE Span(start, BalancedEnd(s, start + 1, 1))
    IN  Opened(Find(s, <<"{">>, 0))

\* the response the service gave in the last step
ResponseText == analyzer_response[2]

\* C25: for a response that is a JSON object in a code fence, after prose,
\* before prose or between prose, _parse_json_response returns the value of
\* the first balanced {...} span of the response, whenever that span is JSON.
C25_FirstBalancedObject ==
    LET Checked(object) ==
            object # Raises => analyzer_return = object
    IN  Len(analyzer_response) = 2 /\ FirstBalancedObject(ResponseText) # << >>
            => Checked(json_loads(FirstBalancedObject(ResponseText)))

\* a summary bullet that opens with a leadership verb
LeadershipBullet == <<"L","e","d"," ","p","l","a","t","f","o","r","m"," ","m","i","g","r","a","t","i","o","n","s"," ","f","o","r"," ","4"," ","p","r","o","d","u","c","t"," ","t","e","a","m","s">>

\* C29: when get_leadership_guidance of the metadata analyze returned is
\* 'Leadership language encouraged', the validation context built from that
\* metadata allows leadership language, and a bullet with a leadership verb
\* gets no leadership error under it.
C29_GuidanceMatchesContext ==
    LET Allowed(validation_context) ==
            /\ validation_context.leadership_allowed
            /\ \A v \in DOMAIN leadership_verbs :
                    check_all_constraints(LeadershipBullet, validation_context)
                        # << LeadershipMessage(leadership_verbs[v], validation_context.role_level) >>
    IN  Returned /\ get_leadership_guidance(ReturnedMetadata)
                        = <<"L","e","a","d","e","r","s","h","i","p"," ","l","a","n","g","u","a","g","e"," ","e","n","c","o","u","r","a","g","e","d"," ","(","l","e","d",","," ","m","a","n","a","g","e","d",","," ","d","i","r","e","c","t","e","d",")">>
            => Allowed(ValidationContextOf(ReturnedMetadata))

(* ------------------------------------------------------------------ *)
(* The app session.                                                    *)
(* ------------------------------------------------------------------ *)
ResultFields == { "validation_result", "experience_validation_result", "skills_validation_result" }

\* the sections that have a validation result
PresentResults == { field \in ResultFields : session[field] # None }

\* the score of a section's result, and nothing for a section without one
PresentScore(field) == IF session[field] = None THEN 0 ELSE session[field][1].score

\* display_results has drawn the scores
ScoresShown == session_shown # << >> /\ session_shown[1] = "scores"

\* C17: the overall score display_results shows is the sum of the scores of the
\* sections that have a validation result divided by the number of those
\* sections, for every combination of results the session can hold; a section
\* without a result adds neither to the sum nor to the count
C17_OverallIsMeanOfPresent ==
    (session_shown # << >> /\ PresentResults # {}) =>
        /\ ScoresShown
        /\ session_shown[2] =
              << PresentScore("validation_result") + PresentScore("experience_validation_result")
                    + PresentScore("skills_validation_result"),
                 Cardinality(PresentResults) >>

\* the scores were shown for a session with a summary and a skills result and
\* no experience result
C17_Witness ==
    /\ ScoresShown
    /\ PresentResults = { "validation_result", "skills_validation_result" }
    /\ session_shown[2][2] = 2

OldValues(s) == << s.old_summary, s.old_experience, s.old_skills >>

\* C19: a step of the session that is not a load of a resume leaves old_summary,
\* old_experience and old_skills as they are, whatever the generate-all, edit,
\* regenerate and refine handlers do to the generated values
C19_OldValuesReadOnly ==
    [][LoadPastedCode \/ OldValues(session') = OldValues(session)]_vars

\* after a load, the generated experience was replaced by a refinement and the
\* old values are still the ones extracted from the loaded resume
C19_Witness ==
    /\ Truthy(session.latex_content)
    /\ session.old_experience # None
    /\ OldValues(session) =
          << extract_summary_section(session.latex_content[1]),
             extract_first_experience(session.latex_content[1]),
             extract_skills_section(session.latex_content[1]) >>
    /\ session.generated_experience \in { Some(refined) : refined \in RefinedTexts }
    /\ Truthy(session.generated_summary)

\* C28: when display_results has drawn the results and updated_latex is set,
\* updated_latex is apply_all_changes of the current latex_content and the
\* current generated summary, experience and skills.
C28_UpdatedLatexCurrent ==
    session_shown # << >> /\ session.updated_latex # None =>
        session.updated_latex[1] =
            UpdatedLatexOf[session.latex_content, session.generated_summary,
                           session.generated_experience, session.generated_skills]

(* ------------------------------------------------------------------ *)
(* Claims about the experience validator                               *)
(* ------------------------------------------------------------------ *)

\* C23: the experience validator reports 'Invalid LaTeX format' exactly when
\* the text lacks \resumeSubheading or contains no \resumeItem{...} item; a
\* block with a heading and list markers but no item is reported.
C23_InvalidFormatIff ==
    Validated("experience") =>
        (HasError(<<"I","n","v","a","l","i","d"," ","L","a","T","e","X"," ","f","o","r","m","a","t">>)
            <=> \/ ~Contains(input_text, <<"\\","r","e","s","u","m","e","S","u","b","h","e","a","d","i","n","g">>)
                \/ ~Contains(input_text, <<"\\","r","e","s","u","m","e","I","t","e","m","{">>))

\* the contents of the \resumeItem{...} items of s from offset from on, each
\* up to the brace that closes the item
RECURSIVE ItemContents(_, _)
ItemContents(s, from) ==
    LET open == <<"\\","r","e","s","u","m","e","I","t","e","m","{">>
        Item(i, e) ==
            IF e = -1 THEN << >>
            ELSE << SubSeq(s, i + Len(open) + 1, e - 1) >> \o ItemContents(s, e)
        At(i) == IF i = -1 THEN << >> ELSE Item(i, BalancedEnd(s, i + Len(open), 1))
    IN  At(Find(s, open, from))

\* s without its \textbf{...}, \textit{...} and \textcolor{...}{...} wrappers,
\* their inner text kept
RECURSIVE Unwrapped(_)
Unwrapped(s) ==
    LET Inner(a, e) ==
            IF e = -1 THEN << s[1] >> \o Unwrapped(Tail(s))
            ELSE Unwrapped(SubSeq(s, a + 1, e - 1)) \o Unwrapped(SliceFrom(s, e))
        Colored(e) ==
            IF e # -1 /\ MatchAt(s, e, <<"{">>) THEN Inner(e + 1, BalancedEnd(s, e + 1, 1))
            ELSE << s[1] >> \o Unwrapped(Tail(s))
    IN  IF s = << >> THEN << >>
        ELSE IF startswith(s, <<"\\","t","e","x","t","b","f","{">>) \/ startswith(s, <<"\\","t","e","x","t","i","t","{">>)
        THEN Inner(8, BalancedEnd(s, 8, 1))
        ELSE IF startswith(s, <<"\\","t","e","x","t","c","o","l","o","r","{">>) THEN Colored(BalancedEnd(s, 11, 1))
        ELSE << s[1] >> \o Unwrapped(Tail(s))

\* C24: the experience validator parses each \resumeItem{...} of the text into
\* one bullet: the whole content of the item, stripped, with its \textbf,
\* \textit and \textcolor wrappers removed and their inner text kept.
C24_BulletIsWholeItem ==
    LET Same(bullets, items) ==
            /\ Len(bullets) = Len(items)
            /\ \A i \in DOMAIN items : bullets[i] = strip(Unwrapped(items[i]))
    IN  Validated("experience")
            => Same(Experience_parse_bullets(input_text), ItemContents(input_text, 0))

(* ------------------------------------------------------------------ *)
(* Further claims about the section engine                             *)
(* ------------------------------------------------------------------ *)

\* the lines '\item <b>' of the bullets bs, each ended by a newline
ItemLines(bs) == Flatten([b \in 1..Len(bs) |-> <<"\\","i","t","e","m"," ">> \o bs[b] \o << "\n" >>])

\* C26: when the pattern of replace_summary_section matches the document, the
\* call does not raise and returns the document with the body of the summary
\* list replaced by one '\item <b>' line for each new bullet b, in order and
\* verbatim; the anchor and \end{itemize} are those of the document.
C26_SummaryBodyVerbatim ==
    LET Replaced(m) ==
            m # << >> =>
                /\ latex_return # Raises
                /\ latex_return = SubSeq(latex_document, 1, m[2]) \o ItemLines(latex_call[2])
                                     \o SliceFrom(latex_document, m[3])
    IN  LatexCalled("replace_summary_section")
            => Replaced(SummaryReplaceMatch(lower(latex_document), 0))

\* a well-formed experience block: one entry, from \resumeSubheading through
\* its only \resumeItemListEnd
WellFormedExperience(block) ==
    /\ startswith(block, <<"\\","r","e","s","u","m","e","S","u","b","h","e","a","d","i","n","g">>)
    /\ Find(block, <<"\\","r","e","s","u","m","e","I","t","e","m","L","i","s","t","E","n","d">>, 0) = Len(block) - Len(<<"\\","r","e","s","u","m","e","I","t","e","m","L","i","s","t","E","n","d">>)

\* a well-formed skills block: a Skills or Technical Skills heading, then one
\* itemize list that ends the block
WellFormedSkills(block) ==
    /\ startswith(block, <<"\\","s","e","c","t","i","o","n","{","S","k","i","l","l","s","}">>) \/ startswith(block, <<"\\","s","e","c","t","i","o","n","{","T","e","c","h","n","i","c","a","l"," ","S","k","i","l","l","s","}">>)
    /\ Contains(block, <<"\\","b","e","g","i","n","{","i","t","e","m","i","z","e","}">>)
    /\ Find(block, <<"\\","e","n","d","{","i","t","e","m","i","z","e","}">>, 0) = Len(block) - Len(<<"\\","e","n","d","{","i","t","e","m","i","z","e","}">>)

\* C30: for Experience and for Skills, on a document where the extraction
\* finds a block, replacing with that block returns the document unchanged,
\* and extracting from the result of replacing with a well-formed block
\* returns that block.
C30_SameSpan ==
    LET Kept(extracted, well_formed, again) ==
            extracted # None =>
                /\ latex_call[2] = extracted[1] => latex_return = latex_document
                /\ well_formed => again = Some(latex_call[2])
    IN  /\ LatexCalled("replace_first_experience")
            => Kept(extract_first_experience(latex_document),
                    WellFormedExperience(latex_call[2]),
                    extract_first_experience(latex_return))
        /\ LatexCalled("replace_skills_section")
            => Kept(extract_skills_section(latex_document),
                    WellFormedSkills(latex_call[2]),
                    extract_skills_section(latex_return))
====
